---- MODULE Spec2Model ----
(***************************************************************************)
(* Model of the CLI runner's job execution core: the ring buffer, the job  *)
(* (Process) with its subscriber fan-out, the registry (Manager) with      *)
(* admission control and cleanup, the Runner's supervising goroutine with  *)
(* its line reader and exit waiter, and the HTTP stream handler.           *)
(*                                                                         *)
(* Every step that the Go code performs under one lock acquisition (or as  *)
(* one unlocked field access) is one action; goroutines are positions      *)
(* (hpc, rpc, rdpc, spc).                                                  *)
(***************************************************************************)
EXTENDS Integers, Sequences, FiniteSets, TLC

\* ---------------------------------------------------------------- bounds
MaxJobs == 2          \* number of Create calls that may succeed
MaxConcurrent == 1    \* config.Process.MaxConcurrent
BufferSize == 2       \* config.Process.BufferSize
ChanCap == 2          \* capacity of a subscriber channel
MaxSubs == 1          \* number of stream requests on the job
MaxFanSubs == 2       \* the same, in the specification of the fan-out
MaxLines == 1         \* output lines an external process prints
MaxTimedLines == 2    \* the same, in the specifications of the parsed lines and of the result cache
MaxTime == 11         \* last instant of the clock (minutes)
CleanupDelay == 3     \* config.Process.CleanupDelay (minutes)
MaxSize == 3          \* largest capacity of the stand-alone ring buffer
MaxExtra == 2         \* pushes beyond the capacity of the stand-alone buffer
MaxThreads == 3       \* goroutines in the specification of the locks
MaxStoppers == 1      \* calls of Manager.Stop on a job between lookup and process.Stop()
MaxLate == 1          \* minutes the cleanup goroutine can be late on a tick of its ticker
MaxHaltStoppers == 2  \* the same, in the specification of repeated Stop calls

\* ------------------------------------------------------ program constants
ResultTTL == 10       \* minutes a result payload stays cached
HandleErrorExit == 1  \* exit code recorded for a launch failure
KilledExit == -1      \* ExitError.ExitCode() of a process ended by a signal
FallbackExit == 1     \* getExitCode for an error that is no ExitError

StatusPending == "pending"
StatusRunning == "running"
StatusCompleted == "completed"
StatusFailed == "failed"
StatusStopped == "stopped"

Jobs == 1..MaxJobs
Subs == 1..MaxFanSubs
NoJob == 0
NULL == -1            \* a nil *time.Time

\* error values of the manager
ErrNil == "nil"
ErrMaxConcurrent == "max concurrent processes reached"
ErrProcessNotFound == "process not found"
ErrActive == "cannot remove active process"

Terminal == {StatusCompleted, StatusFailed, StatusStopped}
Active == {StatusPending, StatusRunning}

\* exit codes with which the external process can end by itself
NaturalExits == {0, 3}

\* ----------------------------------------------------------------- values
NilResult == [isNil |-> TRUE, exitCode |-> 0, hasError |-> FALSE]

MkResult(code, err) == [isNil |-> FALSE, exitCode |-> code, hasError |-> err]

ZeroEvent == [type |-> "", n |-> 0, status |-> "", result |-> NilResult]

LineEvent(kind, n) == [type |-> kind, n |-> n, status |-> "", result |-> NilResult]

ErrorEvent == [type |-> "error", n |-> 0, status |-> "", result |-> NilResult]

DoneEvent(st, res) == [type |-> "done", n |-> 0, status |-> st, result |-> res]

\* ------------------------------------------------------------ ring buffer
NewRingBuffer(size) ==
    [data |-> [i \in 0..(size - 1) |-> ZeroEvent], size |-> size, head |-> 0, count |-> 0]

Push(rb, item) ==
    [rb EXCEPT !.data = [rb.data EXCEPT ![rb.head] = item],
               !.head = (rb.head + 1) % rb.size,
               !.count = IF rb.count < rb.size THEN rb.count + 1 ELSE rb.count]

\* copy(result, data[from:to]) as a sequence
CopyRange(data, from, to) == [i \in 1..(to - from) |-> data[from + i - 1]]

\* ToSlice that copies a full buffer in storage order, ignoring head
ToSliceUnrotated(rb) ==
    IF rb.count = 0 THEN << >> ELSE CopyRange(rb.data, 0, rb.count)

ToSlice(rb) ==
    IF rb.count = 0 THEN << >>
    ELSE IF rb.count < rb.size THEN CopyRange(rb.data, 0, rb.count)
    ELSE CopyRange(rb.data, rb.head, rb.size) \o CopyRange(rb.data, 0, rb.head)

RLen(rb) == rb.count

\* Clear that resets count and the slots and leaves head where it is
ClearKeepsHead(rb) ==
    [rb EXCEPT !.count = 0,
               !.data = [i \in DOMAIN rb.data |-> ZeroEvent]]

Clear(rb) ==
    [rb EXCEPT !.head = 0, !.count = 0,
               !.data = [i \in DOMAIN rb.data |-> ZeroEvent]]

\* ---------------------------------------------------------------- helpers
\* the last n elements of a sequence (all of it when it is shorter)
LastN(s, n) == IF Len(s) <= n THEN s ELSE SubSeq(s, Len(s) - n + 1, Len(s))

Min(a, b) == IF a <= b THEN a ELSE b

RECURSIVE IsSubseq(_, _)
\* a is a subsequence of b (same relative order, elements of b may be skipped)
IsSubseq(a, b) ==
    IF Len(a) = 0 THEN TRUE
    ELSE IF Len(b) = 0 THEN FALSE
    ELSE IF Head(a) = Head(b) THEN IsSubseq(Tail(a), Tail(b))
    ELSE IsSubseq(a, Tail(b))

VARIABLES
    \* Manager
    processes,     \* ids in Manager.processes
    nextId,        \* number of jobs created so far (ids are never reused)
    \* Process fields, per job id
    status,        \* Process.Status
    completedAt,   \* Process.CompletedAt (NULL = nil)
    result,        \* Process.result
    events,        \* Process.events (ring buffer)
    subscribers,   \* keys of Process.subscribers
    doneClosed,    \* Process.done is closed
    doneCloses,    \* number of close(p.done) executed (a second one panics)
    ctx,           \* "none": Process.cancel is nil; "active"; "done": context cancelled or expired
    resultData,    \* Process.resultData (0 = nil, else the line number of the payload)
    resultExpiry,  \* Process.resultExpiry (NULL = nil)
    \* external process and goroutines, per job id
    proc,          \* "none" (cmd.Process nil), "alive", "exited"
    killed,        \* a kill signal was delivered to the live process
    exitCode,      \* exit status delivered to cmdDone once proc = "exited"
    hpc,           \* position of RunHandler after Create
    rpc,           \* position of Runner.run
    rdpc,          \* position of the streamOutput goroutine ("failed": ended on a read error)
    lines,         \* lines scanned so far
    \* history of AddEvent calls, per job id
    appended,
    \* stream requests
    spc,           \* position of StreamHandler
    sjob,          \* job the request is for
    chan,          \* the channel made by Subscribe: [buf, closed, closes]
    snapshot,      \* events written from GetEvents
    received,      \* events written from the channel
    subIdx,        \* Len(appended) when Subscribe ran
    dropped,       \* AddEvent found the channel full at least once
    \* clock and cleanup ticker
    now,
    lastSweep,
    \* stand-alone ring buffer
    rbuf,
    rbPushed,
    rbCleared,
    \* history: the non-terminal statuses that calls of Process.Stop found
    stopSaw,
    \* the error that the last call of Manager.Create, Manager.Remove,
    \* Manager.Stop (as ManagerStop) or Registry.Get returned
    ret,
    \* number of lines the external process prints at most
    lineLimit,
    \* history: payload and instant of the last call of SetResultData, per job id
    cached,
    \* the DELETE /process/{id} request: position of DeleteProcessHandler, the
    \* id it names and the status code of its response (0 = none yet)
    del,
    \* config.Connectors.Claude.Available
    available,
    \* the mutexes m.mu, p.mu and rb.mu: the writer (0 = none) and the readers
    \* holding each
    held,
    \* per goroutine, the lock calls still to make in its current operation
    tprog,
    \* per job, the calls of Manager.Stop that hold its *Process after the
    \* lookup and have not called process.Stop() yet
    stopping,
    \* the GET /result-data/{id} request: position of GetResultDataHandler, the
    \* id it names, the status code (0 = none yet) and the payload of its response
    rdh

mgrVars == <<processes, nextId>>
jobVars == <<status, completedAt, result, events, subscribers, doneClosed, doneCloses, ctx,
             resultData, resultExpiry>>
osVars == <<proc, killed, exitCode>>
pcVars == <<hpc, rpc, rdpc, lines>>
subVars == <<spc, sjob, chan, snapshot, received, subIdx, dropped>>
clockVars == <<now, lastSweep>>
rbVars == <<rbuf, rbPushed, rbCleared>>
muVars == <<held, tprog>>
callVars == <<stopping, rdh>>
auxVars == <<ret, lineLimit, cached, del, available>>

vars == <<mgrVars, jobVars, osVars, pcVars, appended, subVars, clockVars, rbVars, muVars, callVars, stopSaw, auxVars>>

\* ------------------------------------------------------------------ locks
Threads == 1..MaxThreads

\* Manager.mu, and Process.mu and RingBuffer.mu of every job
RegistryLock == [kind |-> "m", job |-> NoJob]
JobLock(j) == [kind |-> "p", job |-> j]
BufferLock(j) == [kind |-> "rb", job |-> j]
Locks == {RegistryLock} \cup {JobLock(j) : j \in Jobs} \cup {BufferLock(j) : j \in Jobs}

\* mu.Lock() as the call and the acquisition, mu.Unlock(); mu.RLock(), mu.RUnlock()
WLocked(l, inner) == <<[op |-> "Call", lock |-> l], [op |-> "Lock", lock |-> l]>>
                     \o inner \o <<[op |-> "Unlock", lock |-> l]>>
RLocked(l, inner) == <<[op |-> "RLock", lock |-> l]>> \o inner
                     \o <<[op |-> "RUnlock", lock |-> l]>>

\* Manager.Create, Manager.Remove, Manager.cleanup: m.mu.Lock for the whole call
RegistryWriteLocks == WLocked(RegistryLock, << >>)

\* Manager.Get, Manager.List, Manager.Count: m.mu.RLock for the whole call
RegistryReadLocks == RLocked(RegistryLock, << >>)

\* Subscribe, Unsubscribe, Stop, Close, SetStatus, SetResult, SetResultData,
\* and the stores of cancel and cmd: p.mu.Lock for the whole call
ProcessWriteLocks(j) == WLocked(JobLock(j), << >>)

\* GetResult, GetStatus, GetResultData, HasValidResultData: p.mu.RLock
ProcessReadLocks(j) == RLocked(JobLock(j), << >>)

\* RingBuffer.Push and Clear (rb.mu.Lock), ToSlice and Len (rb.mu.RLock)
PushLocks(j) == WLocked(BufferLock(j), << >>)
GetEventsLocks(j) == RLocked(BufferLock(j), << >>)

\* Process.AddEvent: p.mu.Lock, events.Push inside, the sends never block
AddEventLocks(j) == WLocked(JobLock(j), PushLocks(j))

\* Manager.Stop that calls process.Stop() before releasing m.mu
ManagerStopLocksNested(j) == RLocked(RegistryLock, ProcessWriteLocks(j))

\* Manager.Stop: the lookup under m.mu.RLock, then process.Stop()
ManagerStopLocks(j) == RegistryReadLocks \o ProcessWriteLocks(j)

LockPrograms ==
    {RegistryWriteLocks, RegistryReadLocks}
    \cup {ManagerStopLocks(j) : j \in Jobs}
    \cup {AddEventLocks(j) : j \in Jobs}
    \cup {ProcessWriteLocks(j) : j \in Jobs}
    \cup {ProcessReadLocks(j) : j \in Jobs}
    \cup {GetEventsLocks(j) : j \in Jobs}

\* goroutine t has called l.Lock() and has not got the lock yet
WriterPending(l) == \E t \in Threads : tprog[t] # << >> /\ Head(tprog[t]) = [op |-> "Lock", lock |-> l]

\* sync.RWMutex: whether goroutine t can make its next lock call now; a
\* reader is held back by a writer that holds or waits for the lock
CanStep(t) ==
    LET i == Head(tprog[t]) IN
    CASE i.op = "Call"    -> TRUE
      [] i.op = "Lock"    -> held[i.lock].w = 0 /\ held[i.lock].r = {}
      [] i.op = "RLock"   -> held[i.lock].w = 0 /\ ~WriterPending(i.lock)
      [] i.op = "Unlock"  -> held[i.lock].w = t
      [] i.op = "RUnlock" -> t \in held[i.lock].r

AfterStep(t) ==
    LET i == Head(tprog[t]) IN
    CASE i.op = "Call"    -> held
      [] i.op = "Lock"    -> [held EXCEPT ![i.lock].w = t]
      [] i.op = "RLock"   -> [held EXCEPT ![i.lock].r = @ \cup {t}]
      [] i.op = "Unlock"  -> [held EXCEPT ![i.lock].w = 0]
      [] i.op = "RUnlock" -> [held EXCEPT ![i.lock].r = @ \ {t}]

\* an idle goroutine starts an operation
LockCall(t, prog) ==
    /\ tprog[t] = << >>
    /\ tprog' = [tprog EXCEPT ![t] = prog]
    /\ UNCHANGED <<held, mgrVars, jobVars, osVars, pcVars, appended, subVars, clockVars,
                   rbVars, callVars, stopSaw, auxVars>>

\* a goroutine makes the next lock call of its operation
LockStep(t) ==
    /\ tprog[t] # << >>
    /\ CanStep(t)
    /\ held' = AfterStep(t)
    /\ tprog' = [tprog EXCEPT ![t] = Tail(@)]
    /\ UNCHANGED <<mgrVars, jobVars, osVars, pcVars, appended, subVars, clockVars,
                   rbVars, callVars, stopSaw, auxVars>>

\* ------------------------------------------------------------------- Init
\* NewManager, and every job slot as NewProcess would leave it once created
SystemInit ==
    /\ processes = {}
    /\ nextId = 0
    /\ status = [j \in Jobs |-> "none"]
    /\ completedAt = [j \in Jobs |-> NULL]
    /\ result = [j \in Jobs |-> NilResult]
    /\ events = [j \in Jobs |-> NewRingBuffer(BufferSize)]
    /\ subscribers = [j \in Jobs |-> {}]
    /\ doneClosed = [j \in Jobs |-> FALSE]
    /\ doneCloses = [j \in Jobs |-> 0]
    /\ held = [l \in Locks |-> [w |-> 0, r |-> {}]]
    /\ tprog = [t \in Threads |-> << >>]
    /\ stopping = [j \in Jobs |-> 0]
    /\ rdh = [pc |-> "idle", id |-> NoJob, code |-> 0, data |-> 0]
    /\ ctx = [j \in Jobs |-> "none"]
    /\ resultData = [j \in Jobs |-> 0]
    /\ resultExpiry = [j \in Jobs |-> NULL]
    /\ proc = [j \in Jobs |-> "none"]
    /\ killed = [j \in Jobs |-> FALSE]
    /\ exitCode = [j \in Jobs |-> 0]
    /\ hpc = [j \in Jobs |-> "none"]
    /\ rpc = [j \in Jobs |-> "none"]
    /\ rdpc = [j \in Jobs |-> "none"]
    /\ lines = [j \in Jobs |-> 0]
    /\ appended = [j \in Jobs |-> << >>]
    /\ spc = [s \in Subs |-> "idle"]
    /\ sjob = [s \in Subs |-> NoJob]
    /\ chan = [s \in Subs |-> [buf |-> << >>, closed |-> FALSE, closes |-> 0]]
    /\ snapshot = [s \in Subs |-> << >>]
    /\ received = [s \in Subs |-> << >>]
    /\ subIdx = [s \in Subs |-> 0]
    /\ dropped = [s \in Subs |-> FALSE]
    /\ now = 0
    /\ lastSweep = 0
    /\ rbPushed = << >>
    /\ rbCleared = FALSE
    /\ stopSaw = [j \in Jobs |-> {}]
    /\ ret = "none"
    /\ cached = [j \in Jobs |-> [data |-> 0, at |-> NULL]]
    /\ del = [pc |-> "idle", id |-> NoJob, code |-> 0]

Init == SystemInit /\ rbuf = NewRingBuffer(1) /\ lineLimit = MaxLines /\ available = TRUE

\* ============================================================== Manager
\* the activeCount loop of Manager.Create and Manager.Count
ActiveCount == Cardinality({j \in processes : status[j] \in Active})

\* Manager.Create with the ceiling compared by > instead of >=
CreateAdmitsAtCeiling ==
    IF ActiveCount > MaxConcurrent
    THEN /\ ret' = ErrMaxConcurrent
         /\ UNCHANGED <<mgrVars, jobVars, osVars, pcVars, appended, subVars, clockVars,
                        rbVars, muVars, callVars, stopSaw, lineLimit, cached, del, available>>
    ELSE /\ nextId < MaxJobs
         /\ nextId' = nextId + 1
         /\ processes' = processes \cup {nextId + 1}
         /\ status' = [status EXCEPT ![nextId + 1] = StatusPending]
         /\ hpc' = [hpc EXCEPT ![nextId + 1] = "created"]
         /\ ret' = ErrNil
         /\ UNCHANGED <<completedAt, result, events, subscribers, doneClosed, doneCloses, ctx,
                        resultData, resultExpiry, osVars, rpc, rdpc, lines, appended,
                        subVars, clockVars, rbVars, muVars, callVars, stopSaw, lineLimit, cached, del, available>>

\* Manager.Create: admission check and insertion under m.mu; RunHandler goes
\* on to Spawn for the job that was returned
Create ==
    IF ActiveCount >= MaxConcurrent
    THEN /\ ret' = ErrMaxConcurrent
         /\ UNCHANGED <<mgrVars, jobVars, osVars, pcVars, appended, subVars, clockVars,
                        rbVars, muVars, callVars, stopSaw, lineLimit, cached, del, available>>
    ELSE /\ nextId < MaxJobs
         /\ nextId' = nextId + 1
         /\ processes' = processes \cup {nextId + 1}
         /\ status' = [status EXCEPT ![nextId + 1] = StatusPending]
         /\ hpc' = [hpc EXCEPT ![nextId + 1] = "created"]
         /\ ret' = ErrNil
         /\ UNCHANGED <<completedAt, result, events, subscribers, doneClosed, doneCloses, ctx,
                        resultData, resultExpiry, osVars, rpc, rdpc, lines, appended,
                        subVars, clockVars, rbVars, muVars, callVars, stopSaw, lineLimit, cached, del, available>>

\* Manager.Get
Get(id) == IF id \in processes THEN [process |-> id, err |-> ErrNil]
           ELSE [process |-> NoJob, err |-> ErrProcessNotFound]

\* the test that Manager.Remove and Manager.cleanup make on a job's Status,
\*   !(Status != completed && Status != failed && Status != stopped),
\* on the values v1, v2, v3 of its three reads of the field; the && stops at
\* the first read that finds its value
ReadsTerminal(v1, v2, v3) ==
    ~(v1 # StatusCompleted /\ v2 # StatusFailed /\ v3 # StatusStopped)

\* The values that three successive reads of job j's Status give in a step
\* that takes the field from status[j] to status'[j]. The reads are made under
\* m.mu and the writes under p.mu, so a write can land before, between or
\* after the reads.
StatusReads(j) ==
    {<<status[j], status[j], status[j]>>,
     <<status[j], status[j], status'[j]>>,
     <<status[j], status'[j], status'[j]>>,
     <<status'[j], status'[j], status'[j]>>}

\* Manager.Remove, under m.mu, in a step that takes job j's Status from
\* status[j] to status'[j] (the caller's own state is left open)
ManagerRemove(j) ==
    /\ \E r \in StatusReads(j) :
          IF j \notin processes
          THEN ret' = ErrProcessNotFound /\ UNCHANGED processes
          ELSE IF ~ReadsTerminal(r[1], r[2], r[3])
               THEN ret' = ErrActive /\ UNCHANGED processes
               ELSE ret' = ErrNil /\ processes' = processes \ {j}
    /\ UNCHANGED <<nextId, completedAt, result, events, subscribers, doneClosed, doneCloses, ctx,
                   resultData, resultExpiry, osVars, hpc, rdpc, lines, appended, subVars,
                   clockVars, rbVars, muVars, callVars, stopSaw, lineLimit, cached, available>>

\* a call of Manager.Remove that is not part of a DELETE request, with no
\* write to the job's Status among its reads
Remove(j) ==
    /\ UNCHANGED <<status, rpc>>
    /\ ManagerRemove(j)
    /\ UNCHANGED del

\* the sweep's test on one job with 'age > cleanupThreshold' in place of '>='
SweepsJobStrict(j, r) ==
    /\ ReadsTerminal(r[1], r[2], r[3])
    /\ completedAt[j] # NULL
    /\ now - completedAt[j] > CleanupDelay

\* Manager.cleanup's test on one job, r being its three reads of the Status
SweepsJob(j, r) ==
    /\ ReadsTerminal(r[1], r[2], r[3])
    /\ completedAt[j] # NULL
    /\ now - completedAt[j] >= CleanupDelay

\* jobs the sweep deletes at the current instant when no write lands among
\* its reads
Sweepable == {j \in processes : SweepsJob(j, <<status[j], status[j], status[j]>>)}

\* Manager.cleanup, under m.mu, in a step that takes each job's Status from
\* status[j] to status'[j]: S are the jobs it deletes
cleanup ==
    \E S \in SUBSET processes :
        /\ \A j \in S : \E r \in StatusReads(j) : SweepsJob(j, r)
        /\ \A j \in processes \ S : \E r \in StatusReads(j) : ~SweepsJob(j, r)
        /\ processes' = processes \ S

\* one ticker tick of StartCleanup followed by Manager.cleanup, with no write
\* to a job's Status among its reads
Cleanup ==
    /\ now - lastSweep >= CleanupDelay
    /\ lastSweep' = now - ((now - lastSweep) % CleanupDelay)
    /\ UNCHANGED <<status, rpc>>
    /\ cleanup
    /\ UNCHANGED <<nextId, completedAt, result, events, subscribers, doneClosed, doneCloses, ctx,
                   resultData, resultExpiry, osVars, hpc, rdpc, lines, appended, subVars, now,
                   rbVars, muVars, callVars, stopSaw, auxVars>>

\* passage of time; the cleanup goroutine serves a tick of its ticker at most
\* MaxLate after the instant of the tick
Tick ==
    /\ now < MaxTime
    /\ now - lastSweep < CleanupDelay + MaxLate
    /\ now' = now + 1
    /\ UNCHANGED <<mgrVars, jobVars, osVars, pcVars, appended, subVars, lastSweep, rbVars, muVars, callVars, stopSaw, auxVars>>

\* ============================================================== Process
\* AddEvent that sends only to subscribers whose channel is empty
AddEventEmptyOnly(j, ev) ==
    /\ events' = [events EXCEPT ![j] = Push(@, ev)]
    /\ chan' = [s \in Subs |->
                  IF s \in subscribers[j] /\ Len(chan[s].buf) < 1
                  THEN [chan[s] EXCEPT !.buf = Append(@, ev)]
                  ELSE chan[s]]
    /\ dropped' = [s \in Subs |->
                     dropped[s] \/ (s \in subscribers[j] /\ Len(chan[s].buf) >= ChanCap)]
    /\ appended' = [appended EXCEPT ![j] = Append(@, ev)]

\* AddEvent that hands the newest event to a subscriber ahead of the waiting ones
AddEventNewestFirst(j, ev) ==
    /\ events' = [events EXCEPT ![j] = Push(@, ev)]
    /\ chan' = [s \in Subs |->
                  IF s \in subscribers[j] /\ Len(chan[s].buf) < ChanCap
                  THEN [chan[s] EXCEPT !.buf = <<ev>> \o @]
                  ELSE chan[s]]
    /\ dropped' = [s \in Subs |->
                     dropped[s] \/ (s \in subscribers[j] /\ Len(chan[s].buf) >= ChanCap)]
    /\ appended' = [appended EXCEPT ![j] = Append(@, ev)]

\* AddEvent with a plain send 'ch <- event', which waits for room in every channel
AddEventBlocking(j, ev) ==
    /\ \A s \in subscribers[j] : Len(chan[s].buf) < ChanCap
    /\ events' = [events EXCEPT ![j] = Push(@, ev)]
    /\ chan' = [s \in Subs |->
                  IF s \in subscribers[j]
                  THEN [chan[s] EXCEPT !.buf = Append(@, ev)]
                  ELSE chan[s]]
    /\ dropped' = dropped
    /\ appended' = [appended EXCEPT ![j] = Append(@, ev)]

\* Process.AddEvent: push to the ring buffer, then a non-blocking send to
\* every registered subscriber, all under p.mu
AddEvent(j, ev) ==
    /\ events' = [events EXCEPT ![j] = Push(@, ev)]
    /\ chan' = [s \in Subs |->
                  IF s \in subscribers[j] /\ Len(chan[s].buf) < ChanCap
                  THEN [chan[s] EXCEPT !.buf = Append(@, ev)]
                  ELSE chan[s]]
    /\ dropped' = [s \in Subs |->
                     dropped[s] \/ (s \in subscribers[j] /\ Len(chan[s].buf) >= ChanCap)]
    /\ appended' = [appended EXCEPT ![j] = Append(@, ev)]

\* close(ch); closes counts the calls, a second one panics
CloseChan(c) == [c EXCEPT !.closed = TRUE, !.closes = @ + 1]

\* Unsubscribe that closes the channel and leaves the entry in the map
UnsubscribeFromKeepsEntry(ch, subs, j, s) ==
    IF s \in subs[j]
    THEN [chan |-> [ch EXCEPT ![s] = CloseChan(@)], subscribers |-> subs]
    ELSE [chan |-> ch, subscribers |-> subs]

\* Process.Unsubscribe as a function of the channels and the subscriber map
UnsubscribeFrom(ch, subs, j, s) ==
    IF s \in subs[j]
    THEN [chan |-> [ch EXCEPT ![s] = CloseChan(@)],
          subscribers |-> [subs EXCEPT ![j] = @ \ {s}]]
    ELSE [chan |-> ch, subscribers |-> subs]

\* Process.Unsubscribe
Unsubscribe(j, s) ==
    /\ chan' = UnsubscribeFrom(chan, subscribers, j, s).chan
    /\ subscribers' = UnsubscribeFrom(chan, subscribers, j, s).subscribers

\* Process.Stop that stamps CompletedAt on every call
ProcessStopRestamps(j) ==
    /\ ctx' = [ctx EXCEPT ![j] = IF @ = "none" THEN "none" ELSE "done"]
    /\ killed' = [killed EXCEPT ![j] = @ \/ proc[j] = "alive"]
    /\ doneClosed' = [doneClosed EXCEPT ![j] = TRUE]
    /\ doneCloses' = [doneCloses EXCEPT ![j] = IF doneClosed[j] THEN @ ELSE @ + 1]
    /\ status' = [status EXCEPT ![j] = IF @ \in Active THEN StatusStopped ELSE @]
    /\ completedAt' = [completedAt EXCEPT ![j] = now]
    /\ stopSaw' = [stopSaw EXCEPT ![j] = @ \cup ({status[j]} \cap Active)]

\* Process.Stop, under p.mu: cancel() if it is set, Kill() if the command has a
\* process, close(done) unless it is closed, and stopped with CompletedAt = now
\* if the status is pending or running
ProcessStop(j) ==
    /\ ctx' = [ctx EXCEPT ![j] = IF @ = "none" THEN "none" ELSE "done"]
    /\ killed' = [killed EXCEPT ![j] = @ \/ proc[j] = "alive"]
    /\ doneClosed' = [doneClosed EXCEPT ![j] = TRUE]
    /\ doneCloses' = [doneCloses EXCEPT ![j] = IF doneClosed[j] THEN @ ELSE @ + 1]
    /\ IF status[j] \in Active
       THEN /\ status' = [status EXCEPT ![j] = StatusStopped]
            /\ completedAt' = [completedAt EXCEPT ![j] = now]
       ELSE UNCHANGED <<status, completedAt>>
    /\ stopSaw' = [stopSaw EXCEPT ![j] = @ \cup ({status[j]} \cap Active)]

\* Manager.Stop, first lock section: the lookup under m.mu.RLock, which gives
\* ErrProcessNotFound for an unknown id and the *Process otherwise (what the
\* caller keeps of it is left open)
ManagerStopLookup(id) ==
    /\ ret' = IF id \notin processes THEN ErrProcessNotFound ELSE ret
    /\ UNCHANGED <<mgrVars, jobVars, osVars, pcVars, appended, subVars, clockVars,
                   rbVars, muVars, stopSaw, lineLimit, cached, available, rdh>>

\* Manager.Stop, second lock section: process.Stop() on the *Process found by
\* the lookup, registered or not by now, and the return of nil
ManagerStopProcess(j) ==
    /\ ProcessStop(j)
    /\ ret' = ErrNil
    /\ UNCHANGED <<mgrVars, result, events, subscribers, resultData, resultExpiry,
                   proc, exitCode, pcVars, appended, subVars, clockVars, rbVars, muVars,
                   lineLimit, cached, available, rdh>>

\* a call of Manager.Stop on any id that is not part of a DELETE request: the
\* lookup
StopCall(id) ==
    /\ ManagerStopLookup(id)
    /\ stopping' = IF id \in processes THEN [stopping EXCEPT ![id] = @ + 1] ELSE stopping
    /\ UNCHANGED del

\* Manager.Stop on a registered id: the lookup
Stop(j) ==
    /\ j \in processes
    /\ StopCall(j)

\* the job whose CompletedAt, as Process.Stop found it, is old enough for the
\* sweep
StaleSweepable(j) ==
    IF completedAt[j] # NULL /\ now - completedAt[j] >= CleanupDelay THEN {j} ELSE {}

\* Manager.cleanup running while the process.Stop() of a Manager.Stop call is
\* between its two writes: cleanup holds m.mu and Stop holds p.mu, and cleanup
\* reads Status and CompletedAt without p.mu, so it finds the Status that Stop
\* has written (stopped) beside the CompletedAt that Stop has yet to replace.
\* Stop holds p.mu and cleanup m.mu for the whole step, so no other operation
\* on the job or on the registry falls in between.
CleanupDuringStop(j) ==
    /\ now - lastSweep >= CleanupDelay
    /\ stopping[j] > 0
    /\ j \in processes
    /\ status[j] \in Active
    /\ ProcessStop(j)
    /\ ret' = ErrNil
    /\ stopping' = [stopping EXCEPT ![j] = @ - 1]
    /\ lastSweep' = now - ((now - lastSweep) % CleanupDelay)
    /\ processes' = processes \ (Sweepable \cup StaleSweepable(j))
    /\ UNCHANGED <<nextId, result, events, subscribers, resultData, resultExpiry,
                   proc, exitCode, pcVars, appended, subVars, now, rbVars, muVars,
                   lineLimit, cached, available, rdh, del>>

\* a call of Manager.Stop goes on after its lookup: process.Stop()
StopProcess(j) ==
    /\ stopping[j] > 0
    /\ ManagerStopProcess(j)
    /\ stopping' = [stopping EXCEPT ![j] = @ - 1]
    /\ UNCHANGED del

\* ------------------------------------------------------------- handlers
\* the connector names a POST /run request can carry; SetupFromConfig registers
\* the first one only
ConnectorNames == {"claude", "other"}

Registered == {"claude"}

ErrConnectorNotFound == "connector not found"
ErrConnectorUnavailable == "connector unavailable"

\* Registry.Get: the error it returns
RegistryGet(name) ==
    IF name \notin Registered THEN ErrConnectorNotFound
    ELSE IF ~available THEN ErrConnectorUnavailable
    ELSE ErrNil

\* RunHandler that asks only whether the connector is registered
RunHandlerSkipsAvailable(name) ==
    IF name \notin Registered
    THEN /\ ret' = RegistryGet(name)
         /\ UNCHANGED <<mgrVars, jobVars, osVars, pcVars, appended, subVars, clockVars,
                        rbVars, muVars, callVars, stopSaw, lineLimit, cached, del, available>>
    ELSE Create

\* RunHandler up to manager.Create: registry.Get turns the request away, or
\* Create runs; Spawn follows as SpawnSetStatus and SpawnGo
RunHandler(name) ==
    IF RegistryGet(name) # ErrNil
    THEN /\ ret' = RegistryGet(name)
         /\ UNCHANGED <<mgrVars, jobVars, osVars, pcVars, appended, subVars, clockVars,
                        rbVars, muVars, callVars, stopSaw, lineLimit, cached, del, available>>
    ELSE Create

\* the status code RunHandler answers with, given the error it met (nil: none)
RunHandlerCode(err) ==
    IF err \in {ErrConnectorNotFound, ErrConnectorUnavailable} THEN 400
    ELSE IF err = ErrMaxConcurrent THEN 429
    ELSE IF err = ErrNil THEN 202
    ELSE 500

\* DeleteProcessHandler: the lookup of manager.Stop, and 404 if it fails
DeleteStop(id) ==
    /\ del.pc = "idle"
    /\ ManagerStopLookup(id)
    /\ del' = IF id \notin processes
              THEN [pc |-> "done", id |-> id, code |-> 404]
              ELSE [pc |-> "stop", id |-> id, code |-> 0]
    /\ UNCHANGED stopping

\* DeleteProcessHandler: manager.Stop goes on with process.Stop()
DeleteStopProcess ==
    /\ del.pc = "stop"
    /\ ManagerStopProcess(del.id)
    /\ del' = [del EXCEPT !.pc = "remove"]
    /\ UNCHANGED stopping

\* DeleteProcessHandler: manager.Remove, 400 if it fails and 200 otherwise
DeleteRemove ==
    /\ del.pc = "remove"
    /\ UNCHANGED <<status, rpc>>
    /\ ManagerRemove(del.id)
    /\ del' = [del EXCEPT !.pc = "done", !.code = IF ret' # ErrNil THEN 400 ELSE 200]

\* ======================================================= Runner.Spawn
\* Spawn: process.SetStatus(StatusRunning)
SpawnSetStatus(j) ==
    /\ hpc[j] = "created"
    /\ status' = [status EXCEPT ![j] = StatusRunning]
    /\ hpc' = [hpc EXCEPT ![j] = "status"]
    /\ UNCHANGED <<mgrVars, completedAt, result, events, subscribers, doneClosed, doneCloses, ctx,
                   resultData, resultExpiry, osVars, rpc, rdpc, lines, appended,
                   subVars, clockVars, rbVars, muVars, callVars, stopSaw, auxVars>>

\* Spawn: context.WithTimeout, process.cancel = cancel, go r.run(...)
SpawnGo(j) ==
    /\ hpc[j] = "status"
    /\ ctx' = [ctx EXCEPT ![j] = "active"]
    /\ rpc' = [rpc EXCEPT ![j] = "start"]
    /\ hpc' = [hpc EXCEPT ![j] = "done"]
    /\ UNCHANGED <<mgrVars, status, completedAt, result, events, subscribers, doneClosed, doneCloses,
                   resultData, resultExpiry, osVars, rdpc, lines, appended,
                   subVars, clockVars, rbVars, muVars, callVars, stopSaw, auxVars>>

\* the deadline of context.WithTimeout elapses
Timeout(j) ==
    /\ ctx[j] = "active"
    /\ ctx' = [ctx EXCEPT ![j] = "done"]
    /\ UNCHANGED <<mgrVars, status, completedAt, result, events, subscribers, doneClosed, doneCloses,
                   resultData, resultExpiry, osVars, pcVars, appended,
                   subVars, clockVars, rbVars, muVars, callVars, stopSaw, auxVars>>

\* ================================================== external process
\* the process ends and cmd.Wait() delivers its status on cmdDone
ProcExit(j, code) ==
    /\ proc[j] = "alive"
    /\ code \in (IF killed[j] THEN {KilledExit} ELSE NaturalExits)
    /\ proc' = [proc EXCEPT ![j] = "exited"]
    /\ exitCode' = [exitCode EXCEPT ![j] = code]
    /\ UNCHANGED <<mgrVars, jobVars, killed, pcVars, appended, subVars, clockVars, rbVars, muVars, callVars, stopSaw, auxVars>>

\* ========================================================= Runner.run
\* run up to cmd.Start(): process.cmd = cmd, StdoutPipe, Start; on success the
\* streamOutput and cmd.Wait goroutines are started, on failure handleError runs
RunLaunch(j, ok) ==
    /\ rpc[j] = "start"
    /\ IF ok
       THEN /\ proc' = [proc EXCEPT ![j] = "alive"]
            /\ rdpc' = [rdpc EXCEPT ![j] = "reading"]
            /\ rpc' = [rpc EXCEPT ![j] = "select"]
       ELSE /\ rpc' = [rpc EXCEPT ![j] = "he_status"]
            /\ UNCHANGED <<proc, rdpc>>
    /\ UNCHANGED <<mgrVars, jobVars, killed, exitCode, hpc, lines, appended,
                   subVars, clockVars, rbVars, muVars, callVars, stopSaw, auxVars>>

\* the case <-ctx.Done() without the Kill call
RunSelectCtxNoKill(j) ==
    /\ rpc[j] = "select"
    /\ ctx[j] = "done"
    /\ rpc' = [rpc EXCEPT ![j] = "ctx_wait"]
    /\ UNCHANGED <<mgrVars, jobVars, osVars, hpc, rdpc, lines, appended,
                   subVars, clockVars, rbVars, muVars, callVars, stopSaw, auxVars>>

\* select, case <-ctx.Done(): cmd.Process.Kill()
RunSelectCtx(j) ==
    /\ rpc[j] = "select"
    /\ ctx[j] = "done"
    /\ killed' = [killed EXCEPT ![j] = @ \/ proc[j] = "alive"]
    /\ rpc' = [rpc EXCEPT ![j] = "ctx_wait"]
    /\ UNCHANGED <<mgrVars, jobVars, proc, exitCode, hpc, rdpc, lines, appended,
                   subVars, clockVars, rbVars, muVars, callVars, stopSaw, auxVars>>

\* the ctx.Done() case that goes on after Kill without receiving from cmdDone
RunCtxStoppedNoWait(j) ==
    /\ rpc[j] = "ctx_wait"
    /\ status' = [status EXCEPT ![j] = StatusStopped]
    /\ rpc' = [rpc EXCEPT ![j] = "ctx_err"]
    /\ UNCHANGED <<mgrVars, completedAt, result, events, subscribers, doneClosed, doneCloses, ctx,
                   resultData, resultExpiry, osVars, hpc, rdpc, lines, appended,
                   subVars, clockVars, rbVars, muVars, callVars, stopSaw, auxVars>>

\* case <-ctx.Done(), continued: <-cmdDone, then process.SetStatus(StatusStopped)
RunCtxStopped(j) ==
    /\ rpc[j] = "ctx_wait"
    /\ proc[j] = "exited"
    /\ status' = [status EXCEPT ![j] = StatusStopped]
    /\ rpc' = [rpc EXCEPT ![j] = "ctx_err"]
    /\ UNCHANGED <<mgrVars, completedAt, result, events, subscribers, doneClosed, doneCloses, ctx,
                   resultData, resultExpiry, osVars, hpc, rdpc, lines, appended,
                   subVars, clockVars, rbVars, muVars, callVars, stopSaw, auxVars>>

\* select, case cmdErr = <-cmdDone
RunSelectCmd(j) ==
    /\ rpc[j] = "select"
    /\ proc[j] = "exited"
    /\ rpc' = [rpc EXCEPT ![j] = "cmd_stream"]
    /\ UNCHANGED <<mgrVars, jobVars, osVars, hpc, rdpc, lines, appended,
                   subVars, clockVars, rbVars, muVars, callVars, stopSaw, auxVars>>

\* streamOutput has returned and streamDone is closed
StreamDoneClosed(j) == rdpc[j] \in {"done", "failed"}

\* case cmdErr = <-cmdDone, continued: <-streamDone, then SetStatus
RunCmdSetStatus(j) ==
    /\ rpc[j] = "cmd_stream"
    /\ StreamDoneClosed(j)
    /\ status' = [status EXCEPT ![j] =
                    IF exitCode[j] # 0 THEN StatusFailed ELSE StatusCompleted]
    /\ rpc' = [rpc EXCEPT ![j] = "cmd_result"]

\* that step with no call of Manager.Remove or Manager.cleanup reading the
\* Status meanwhile
RunCmdStatus(j) ==
    /\ RunCmdSetStatus(j)
    /\ UNCHANGED <<mgrVars, completedAt, result, events, subscribers, doneClosed, doneCloses, ctx,
                   resultData, resultExpiry, osVars, hpc, rdpc, lines, appended,
                   subVars, clockVars, rbVars, muVars, callVars, stopSaw, auxVars>>

\* the error that cmd.Wait() returns for a process that ended with a nonzero
\* status or by a signal: an *exec.ExitError carrying that status
cmdErr(j) == [isExitError |-> TRUE, code |-> exitCode[j]]

\* getExitCode that answers the fallback code for every error
getExitCodeFallbackOnly(err) == FallbackExit

\* getExitCode
getExitCode(err) == IF err.isExitError THEN err.code ELSE FallbackExit

\* process.SetResult on the two branches of cmdErr
RunCmdResult(j) ==
    /\ rpc[j] = "cmd_result"
    /\ result' = [result EXCEPT ![j] =
                    IF exitCode[j] # 0 THEN MkResult(getExitCode(cmdErr(j)), TRUE)
                    ELSE MkResult(0, FALSE)]
    /\ rpc' = [rpc EXCEPT ![j] = IF exitCode[j] # 0 THEN "send_err" ELSE "send_done"]
    /\ UNCHANGED <<mgrVars, status, completedAt, events, subscribers, doneClosed, doneCloses, ctx,
                   resultData, resultExpiry, osVars, hpc, rdpc, lines, appended,
                   subVars, clockVars, rbVars, muVars, callVars, stopSaw, auxVars>>

\* handleError: process.SetStatus(StatusFailed)
HandleErrorSetStatus(j) ==
    /\ rpc[j] = "he_status"
    /\ status' = [status EXCEPT ![j] = StatusFailed]
    /\ rpc' = [rpc EXCEPT ![j] = "he_result"]

\* that step with no call of Manager.Remove or Manager.cleanup reading the
\* Status meanwhile
HandleErrorStatus(j) ==
    /\ HandleErrorSetStatus(j)
    /\ UNCHANGED <<mgrVars, completedAt, result, events, subscribers, doneClosed, doneCloses, ctx,
                   resultData, resultExpiry, osVars, hpc, rdpc, lines, appended,
                   subVars, clockVars, rbVars, muVars, callVars, stopSaw, auxVars>>

\* SetStatus(StatusFailed) or SetStatus(StatusCompleted) of the job's
\* supervising task, the writes to Status that can replace a terminal value
\* by another one
SetTerminalStatus(j) ==
    \/ RunCmdSetStatus(j)
    \/ HandleErrorSetStatus(j)

\* Manager.Remove while SetTerminalStatus lands on the job it tests: Remove
\* holds m.mu and SetStatus p.mu, and Remove reads Status without p.mu, so
\* the write falls before, between or after its three reads. Over 'stopped'
\* the reads can be stopped, stopped, failed (or stopped, stopped|completed,
\* completed): none finds the value it tests for and Remove answers 'cannot
\* remove active process' for a job that is terminal before and after.
RemoveDuringSetStatus(j) ==
    /\ SetTerminalStatus(j)
    /\ ManagerRemove(j)
    /\ UNCHANGED del

\* the manager.Remove of DeleteProcessHandler while SetTerminalStatus lands on
\* its job
DeleteRemoveDuringSetStatus ==
    /\ del.pc = "remove"
    /\ SetTerminalStatus(del.id)
    /\ ManagerRemove(del.id)
    /\ del' = [del EXCEPT !.pc = "done", !.code = IF ret' # ErrNil THEN 400 ELSE 200]

\* Manager.cleanup while SetTerminalStatus lands on job j: the sweep reads
\* the Status without p.mu and can pass over a job whose status is terminal
\* before and after, which then stays until a later sweep
CleanupDuringSetStatus(j) ==
    /\ now - lastSweep >= CleanupDelay
    /\ lastSweep' = now - ((now - lastSweep) % CleanupDelay)
    /\ SetTerminalStatus(j)
    /\ cleanup
    /\ UNCHANGED <<nextId, completedAt, result, events, subscribers, doneClosed, doneCloses, ctx,
                   resultData, resultExpiry, osVars, hpc, rdpc, lines, appended, subVars, now,
                   rbVars, muVars, callVars, stopSaw, auxVars>>

\* handleError that returns after SetResult, without the events and without Close
HandleErrorResultReturns(j) ==
    /\ rpc[j] = "he_result"
    /\ result' = [result EXCEPT ![j] = MkResult(HandleErrorExit, TRUE)]
    /\ rpc' = [rpc EXCEPT ![j] = "finished"]
    /\ UNCHANGED <<mgrVars, status, completedAt, events, subscribers, doneClosed, doneCloses, ctx,
                   resultData, resultExpiry, osVars, hpc, rdpc, lines, appended,
                   subVars, clockVars, rbVars, muVars, callVars, stopSaw, auxVars>>

\* handleError that records exit code 0
HandleErrorResultZero(j) ==
    /\ rpc[j] = "he_result"
    /\ result' = [result EXCEPT ![j] = MkResult(0, TRUE)]
    /\ rpc' = [rpc EXCEPT ![j] = "send_err"]
    /\ UNCHANGED <<mgrVars, status, completedAt, events, subscribers, doneClosed, doneCloses, ctx,
                   resultData, resultExpiry, osVars, hpc, rdpc, lines, appended,
                   subVars, clockVars, rbVars, muVars, callVars, stopSaw, auxVars>>

\* handleError: process.SetResult(&Result{ExitCode: 1, Error: err.Error()})
HandleErrorResult(j) ==
    /\ rpc[j] = "he_result"
    /\ result' = [result EXCEPT ![j] = MkResult(HandleErrorExit, TRUE)]
    /\ rpc' = [rpc EXCEPT ![j] = "send_err"]
    /\ UNCHANGED <<mgrVars, status, completedAt, events, subscribers, doneClosed, doneCloses, ctx,
                   resultData, resultExpiry, osVars, hpc, rdpc, lines, appended,
                   subVars, clockVars, rbVars, muVars, callVars, stopSaw, auxVars>>

\* sendErrorEvent after which the caller goes straight to Close
SendErrorEventSkipsDone(j) ==
    /\ rpc[j] \in {"ctx_err", "send_err"}
    /\ AddEvent(j, ErrorEvent)
    /\ rpc' = [rpc EXCEPT ![j] = "close"]
    /\ UNCHANGED <<mgrVars, status, completedAt, result, subscribers, doneClosed, doneCloses, ctx,
                   resultData, resultExpiry, osVars, hpc, rdpc, lines,
                   spc, sjob, snapshot, received, subIdx, clockVars, rbVars, muVars, callVars, stopSaw, auxVars>>

\* sendErrorEvent, called by run on the stop and failure branches and by handleError
SendErrorEvent(j) ==
    /\ rpc[j] \in {"ctx_err", "send_err"}
    /\ AddEvent(j, ErrorEvent)
    /\ rpc' = [rpc EXCEPT ![j] = "send_done"]
    /\ UNCHANGED <<mgrVars, status, completedAt, result, subscribers, doneClosed, doneCloses, ctx,
                   resultData, resultExpiry, osVars, hpc, rdpc, lines,
                   spc, sjob, snapshot, received, subIdx, clockVars, rbVars, muVars, callVars, stopSaw, auxVars>>

\* sendDoneEvent that pushes the done event to the ring buffer only
SendDoneEventBufferOnly(j) ==
    /\ rpc[j] = "send_done"
    /\ events' = [events EXCEPT ![j] = Push(@, DoneEvent(status[j], result[j]))]
    /\ appended' = [appended EXCEPT ![j] = Append(@, DoneEvent(status[j], result[j]))]
    /\ rpc' = [rpc EXCEPT ![j] = "close"]
    /\ UNCHANGED <<mgrVars, status, completedAt, result, subscribers, doneClosed, doneCloses, ctx,
                   resultData, resultExpiry, osVars, hpc, rdpc, lines,
                   subVars, clockVars, rbVars, muVars, callVars, stopSaw, auxVars>>

\* sendDoneEvent, called at the end of run and of handleError
SendDoneEvent(j) ==
    /\ rpc[j] = "send_done"
    /\ AddEvent(j, DoneEvent(status[j], result[j]))
    /\ rpc' = [rpc EXCEPT ![j] = "close"]
    /\ UNCHANGED <<mgrVars, status, completedAt, result, subscribers, doneClosed, doneCloses, ctx,
                   resultData, resultExpiry, osVars, hpc, rdpc, lines,
                   spc, sjob, snapshot, received, subIdx, clockVars, rbVars, muVars, callVars, stopSaw, auxVars>>

\* Close that closes p.done without looking whether it is closed already
CloseDoneUnguarded(j) ==
    /\ rpc[j] = "close"
    /\ doneClosed' = [doneClosed EXCEPT ![j] = TRUE]
    /\ doneCloses' = [doneCloses EXCEPT ![j] = @ + 1]
    /\ chan' = [s \in Subs |->
                  IF s \in subscribers[j] THEN CloseChan(chan[s]) ELSE chan[s]]
    /\ subscribers' = [subscribers EXCEPT ![j] = {}]
    /\ completedAt' = [completedAt EXCEPT ![j] = IF @ = NULL THEN now ELSE @]
    /\ ctx' = [ctx EXCEPT ![j] = "done"]
    /\ rpc' = [rpc EXCEPT ![j] = "finished"]
    /\ UNCHANGED <<mgrVars, status, result, events, resultData, resultExpiry, osVars,
                   hpc, rdpc, lines, appended,
                   spc, sjob, snapshot, received, subIdx, dropped, clockVars, rbVars, muVars, callVars, stopSaw, auxVars>>

\* Process.Close, after which run returns and the deferred cancel() runs
Close(j) ==
    /\ rpc[j] = "close"
    /\ doneClosed' = [doneClosed EXCEPT ![j] = TRUE]
    /\ doneCloses' = [doneCloses EXCEPT ![j] = IF doneClosed[j] THEN @ ELSE @ + 1]
    /\ chan' = [s \in Subs |->
                  IF s \in subscribers[j] THEN CloseChan(chan[s]) ELSE chan[s]]
    /\ subscribers' = [subscribers EXCEPT ![j] = {}]
    /\ completedAt' = [completedAt EXCEPT ![j] = IF @ = NULL THEN now ELSE @]
    /\ ctx' = [ctx EXCEPT ![j] = "done"]
    /\ rpc' = [rpc EXCEPT ![j] = "finished"]
    /\ UNCHANGED <<mgrVars, status, result, events, resultData, resultExpiry, osVars,
                   hpc, rdpc, lines, appended,
                   spc, sjob, snapshot, received, subIdx, dropped, clockVars, rbVars, muVars, callVars, stopSaw, auxVars>>

\* ================================================ ClaudeConnector.ParseLine
\* an output line, by what ParseLine looks at: blank after TrimSpace, whether
\* json.Unmarshal into a map succeeds, and the value of its "type" field
BlankLine == [blank |-> TRUE,  json |-> FALSE, type |-> ""]
TextLine == [blank |-> FALSE, json |-> FALSE, type |-> ""]
ObjectLine == [blank |-> FALSE, json |-> TRUE,  type |-> ""]
StreamLine == [blank |-> FALSE, json |-> TRUE,  type |-> "assistant"]
ResultLine == [blank |-> FALSE, json |-> TRUE,  type |-> "result"]
OutputLines == {BlankLine, TextLine, ObjectLine, StreamLine, ResultLine}

NoEvent == "nil"

ParseLineTextAsStream(line) ==
    IF line.blank THEN [event |-> NoEvent, err |-> ErrNil]
    ELSE [event |-> IF line.json /\ line.type = "result" THEN "result" ELSE "stream",
          err |-> ErrNil]

\* blank and non-JSON lines give (nil, nil); a JSON object gives a "result"
\* event when its type is "result" and a "stream" event otherwise
ParseLine(line) ==
    IF line.blank THEN [event |-> NoEvent, err |-> ErrNil]
    ELSE IF ~line.json THEN [event |-> NoEvent, err |-> ErrNil]
    ELSE [event |-> IF line.type = "result" THEN "result" ELSE "stream",
          err |-> ErrNil]

\* ================================================ Runner.streamOutput
\* one scanner.Scan() that yields a line: a parse error or a nil event skips
\* the line (continue), any other event is handed to AddEvent
ReaderLine(j, line) ==
    LET parsed == ParseLine(line) IN
    /\ rdpc[j] = "reading"
    /\ lines[j] < lineLimit
    /\ lines' = [lines EXCEPT ![j] = @ + 1]
    /\ IF parsed.err # ErrNil \/ parsed.event = NoEvent
       THEN UNCHANGED <<events, chan, dropped, appended>>
       ELSE AddEvent(j, LineEvent(parsed.event, lines[j] + 1))
    /\ rdpc' = [rdpc EXCEPT ![j] = IF parsed.err = ErrNil /\ parsed.event = "result"
                                    THEN "cache" ELSE "reading"]
    /\ UNCHANGED <<mgrVars, status, completedAt, result, subscribers, doneClosed, doneCloses, ctx,
                   resultData, resultExpiry, osVars, hpc, rpc,
                   spc, sjob, snapshot, received, subIdx, clockVars, rbVars, muVars, callVars, stopSaw, auxVars>>

\* process.SetResultData(event.Data) after a result event
ReaderCache(j) ==
    /\ rdpc[j] = "cache"
    /\ resultData' = [resultData EXCEPT ![j] = lines[j]]
    /\ resultExpiry' = [resultExpiry EXCEPT ![j] = now + ResultTTL]
    /\ cached' = [cached EXCEPT ![j] = [data |-> lines[j], at |-> now]]
    /\ rdpc' = [rdpc EXCEPT ![j] = "reading"]
    /\ UNCHANGED <<mgrVars, status, completedAt, result, events, subscribers, doneClosed, doneCloses,
                   ctx, osVars, hpc, rpc, lines, appended, subVars, clockVars, rbVars, muVars, callVars,
                   stopSaw, ret, lineLimit, del, available>>

\* Process.GetResultData that never looks at the expiry
GetResultDataNoExpiry(j) == resultData[j]

\* Process.GetResultData at the current instant (0 = nil)
GetResultData(j) ==
    IF resultExpiry[j] = NULL \/ now > resultExpiry[j] THEN 0 ELSE resultData[j]

\* GetResultDataHandler: manager.Get, under m.mu.RLock; 404 for an unknown id,
\* else the handler keeps the *Process it found
ResultDataGet(id) ==
    /\ rdh.pc = "idle"
    /\ rdh' = IF Get(id).err # ErrNil
              THEN [pc |-> "done", id |-> id, code |-> 404, data |-> 0]
              ELSE [pc |-> "read", id |-> id, code |-> 0, data |-> 0]
    /\ UNCHANGED <<mgrVars, jobVars, osVars, pcVars, appended, subVars, clockVars,
                   rbVars, muVars, stopping, stopSaw, auxVars>>

\* GetResultDataHandler: process.GetResultData, under p.mu.RLock; 404 for nil,
\* else 200 with the payload
ResultDataRead ==
    /\ rdh.pc = "read"
    /\ rdh' = [rdh EXCEPT !.pc = "done",
                          !.code = IF GetResultData(rdh.id) = 0 THEN 404 ELSE 200,
                          !.data = GetResultData(rdh.id)]
    /\ UNCHANGED <<mgrVars, jobVars, osVars, pcVars, appended, subVars, clockVars,
                   rbVars, muVars, stopping, stopSaw, auxVars>>

\* scanner.Scan() returns false (end of stream or closed pipe): close(streamDone)
ReaderEnd(j) ==
    /\ rdpc[j] = "reading"
    /\ proc[j] = "exited"
    /\ rdpc' = [rdpc EXCEPT ![j] = "done"]
    /\ UNCHANGED <<mgrVars, jobVars, osVars, hpc, rpc, lines, appended,
                   subVars, clockVars, rbVars, muVars, callVars, stopSaw, auxVars>>

\* scanner.Scan() returns false with scanner.Err() set (a line over the buffer
\* limit, a failed read): the error is logged, streamOutput returns and
\* streamDone is closed
ReaderError(j) ==
    /\ rdpc[j] = "reading"
    /\ rdpc' = [rdpc EXCEPT ![j] = "failed"]
    /\ UNCHANGED <<mgrVars, jobVars, osVars, hpc, rpc, lines, appended,
                   subVars, clockVars, rbVars, muVars, callVars, stopSaw, auxVars>>

\* ====================================================== StreamHandler
\* manager.Get, under m.mu.RLock: the handler keeps the *Process it found
StreamOpen(s, j) ==
    /\ spc[s] = "idle"
    /\ j \in processes
    /\ sjob' = [sjob EXCEPT ![s] = j]
    /\ spc' = [spc EXCEPT ![s] = "snapshot"]
    /\ UNCHANGED <<mgrVars, jobVars, osVars, pcVars, appended, chan, snapshot, received, subIdx,
                   dropped, clockVars, rbVars, muVars, callVars, stopSaw, auxVars>>

\* process.GetEvents, under rb.mu.RLock: the buffered events are written first
StreamSnapshot(s) ==
    /\ spc[s] = "snapshot"
    /\ snapshot' = [snapshot EXCEPT ![s] = ToSlice(events[sjob[s]])]
    /\ spc' = [spc EXCEPT ![s] = "subscribe"]
    /\ UNCHANGED <<mgrVars, jobVars, osVars, pcVars, appended, chan, sjob, received, subIdx,
                   dropped, clockVars, rbVars, muVars, callVars, stopSaw, auxVars>>

\* Subscribe whose new channel starts with the events in the buffer
SubscribeWithBacklog(s) ==
    /\ spc[s] = "subscribe"
    /\ chan' = [chan EXCEPT ![s] = [buf |-> LastN(ToSlice(events[sjob[s]]), ChanCap), closed |-> FALSE, closes |-> 0]]
    /\ subscribers' = [subscribers EXCEPT ![sjob[s]] = @ \cup {s}]
    /\ subIdx' = [subIdx EXCEPT ![s] = Len(appended[sjob[s]])]
    /\ spc' = [spc EXCEPT ![s] = "recv"]
    /\ UNCHANGED <<mgrVars, status, completedAt, result, events, doneClosed, doneCloses, ctx,
                   resultData, resultExpiry, osVars, pcVars, appended,
                   sjob, snapshot, received, dropped, clockVars, rbVars, muVars, callVars, stopSaw, auxVars>>

\* Process.Subscribe
Subscribe(s) ==
    /\ spc[s] = "subscribe"
    /\ chan' = [chan EXCEPT ![s] = [buf |-> << >>, closed |-> FALSE, closes |-> 0]]
    /\ subscribers' = [subscribers EXCEPT ![sjob[s]] = @ \cup {s}]
    /\ subIdx' = [subIdx EXCEPT ![s] = Len(appended[sjob[s]])]
    /\ spc' = [spc EXCEPT ![s] = "recv"]
    /\ UNCHANGED <<mgrVars, status, completedAt, result, events, doneClosed, doneCloses, ctx,
                   resultData, resultExpiry, osVars, pcVars, appended,
                   sjob, snapshot, received, dropped, clockVars, rbVars, muVars, callVars, stopSaw, auxVars>>

\* case event, ok := <-eventChan with ok: the event is taken from the channel
\* and written; after a done event the handler returns
StreamRecv(s) ==
    /\ spc[s] = "recv"
    /\ chan[s].buf # << >>
    /\ chan' = [chan EXCEPT ![s].buf = Tail(@)]
    /\ received' = [received EXCEPT ![s] = Append(@, Head(chan[s].buf))]
    /\ spc' = [spc EXCEPT ![s] = IF Head(chan[s].buf).type = "done" THEN "ending" ELSE @]
    /\ UNCHANGED <<mgrVars, jobVars, osVars, pcVars, appended,
                   sjob, snapshot, subIdx, dropped, clockVars, rbVars, muVars, callVars,
                   stopSaw, auxVars>>

\* the same receive when writeSSEEvent fails: the event is taken from the
\* channel, not delivered, and the handler returns
StreamWriteFails(s) ==
    /\ spc[s] = "recv"
    /\ chan[s].buf # << >>
    /\ chan' = [chan EXCEPT ![s].buf = Tail(@)]
    /\ spc' = [spc EXCEPT ![s] = "leaving"]
    /\ UNCHANGED <<mgrVars, jobVars, osVars, pcVars, appended,
                   sjob, snapshot, received, subIdx, dropped, clockVars, rbVars, muVars, callVars,
                   stopSaw, auxVars>>

\* case event, ok := <-eventChan with !ok: the channel is closed and drained,
\* the handler returns
StreamClosed(s) ==
    /\ spc[s] = "recv"
    /\ chan[s].buf = << >>
    /\ chan[s].closed
    /\ spc' = [spc EXCEPT ![s] = "ending"]
    /\ UNCHANGED <<mgrVars, jobVars, osVars, pcVars, appended,
                   chan, sjob, snapshot, received, subIdx, dropped, clockVars, rbVars, muVars, callVars,
                   stopSaw, auxVars>>

\* case <-clientClosed: the client is gone, the handler returns
StreamDisconnect(s) ==
    /\ spc[s] = "recv"
    /\ spc' = [spc EXCEPT ![s] = "leaving"]
    /\ UNCHANGED <<mgrVars, jobVars, osVars, pcVars, appended,
                   chan, sjob, snapshot, received, subIdx, dropped, clockVars, rbVars, muVars, callVars,
                   stopSaw, auxVars>>

\* the deferred cleanup() of a handler that has returned: Process.Unsubscribe,
\* under p.mu
StreamReturn(s) ==
    /\ spc[s] \in {"ending", "leaving"}
    /\ spc' = [spc EXCEPT ![s] = IF @ = "ending" THEN "ended" ELSE "gone"]
    /\ Unsubscribe(sjob[s], s)
    /\ UNCHANGED <<mgrVars, status, completedAt, result, events, doneClosed, doneCloses, ctx,
                   resultData, resultExpiry, osVars, pcVars, appended,
                   sjob, snapshot, received, subIdx, dropped, clockVars, rbVars, muVars, callVars,
                   stopSaw, auxVars>>

\* the cleanup function that Subscribe returned is called once more, after the
\* handler's own deferred call
UnsubscribeAgain(s) ==
    /\ spc[s] \in {"ended", "gone"}
    /\ Unsubscribe(sjob[s], s)
    /\ UNCHANGED <<mgrVars, status, completedAt, result, events, doneClosed, doneCloses, ctx,
                   resultData, resultExpiry, osVars, pcVars, appended,
                   spc, sjob, snapshot, received, subIdx, dropped, clockVars, rbVars, muVars, callVars,
                   stopSaw, auxVars>>

\* ============================================ stand-alone ring buffer
RBItems == {LineEvent("stream", 1), LineEvent("stream", 2)}

RBPush(item) ==
    /\ Len(rbPushed) < rbuf.size + MaxExtra
    /\ rbuf' = Push(rbuf, item)
    /\ rbPushed' = Append(rbPushed, item)
    /\ UNCHANGED <<muVars, callVars, mgrVars, jobVars, osVars, pcVars, appended, subVars, clockVars, rbCleared, stopSaw, auxVars>>

RBClear ==
    /\ rbuf' = Clear(rbuf)
    /\ rbPushed' = << >>
    /\ rbCleared' = TRUE
    /\ UNCHANGED <<muVars, callVars, mgrVars, jobVars, osVars, pcVars, appended, subVars, clockVars, stopSaw, auxVars>>

\* ===================================================== specifications
\* RunHandler's manager.Create for the first job of a run
CreateFirst == nextId = 0 /\ Create

\* the steps of Runner.run and handleError
RunStep(j) ==
    \/ \E ok \in BOOLEAN : RunLaunch(j, ok)
    \/ RunSelectCtx(j)
    \/ RunCtxStopped(j)
    \/ RunSelectCmd(j)
    \/ RunCmdStatus(j)
    \/ RunCmdResult(j)
    \/ HandleErrorStatus(j)
    \/ HandleErrorResult(j)
    \/ SendErrorEvent(j)
    \/ SendDoneEvent(j)
    \/ Close(j)

\* a call of Manager.Stop on a registered job, in its two lock sections
StopStep(j) ==
    \/ (\A k \in Jobs : stopping[k] < MaxStoppers) /\ Stop(j)
    \/ StopProcess(j)

\* what happens to a job between Create and the end of its goroutines,
\* apart from its output lines and its removal
JobStep(j) ==
    \/ StopStep(j)
    \/ SpawnSetStatus(j)
    \/ SpawnGo(j)
    \/ Timeout(j)
    \/ \E code \in NaturalExits \cup {KilledExit} : ProcExit(j, code)
    \/ RunStep(j)
    \/ ReaderEnd(j)

LifeStep(j) ==
    \/ Remove(j)
    \/ RemoveDuringSetStatus(j)
    \/ JobStep(j)

ReaderStep(j) ==
    \/ \E line \in OutputLines : ReaderLine(j, line)
    \/ ReaderCache(j)

SubStep(s) ==
    \/ \E j \in Jobs : StreamOpen(s, j)
    \/ StreamSnapshot(s)
    \/ Subscribe(s)
    \/ StreamRecv(s)
    \/ StreamWriteFails(s)
    \/ StreamClosed(s)
    \/ StreamDisconnect(s)
    \/ StreamReturn(s)

\* one job with its process, its line reader and the stream requests on it
Next ==
    \/ CreateFirst
    \/ \E j \in Jobs : LifeStep(j)
    \/ \E j \in Jobs : ReaderStep(j)
    \/ \E s \in 1..MaxSubs : SubStep(s)

Spec == Init /\ [][Next]_vars

\* Scheduling: every goroutine that can take a step eventually takes it, the
\* deadline of a live context eventually elapses, a killed process ends, and a
\* stream handler serves its request.  The external process need not end by
\* itself and the client need not disconnect.
Fairness ==
    /\ \A j \in Jobs :
        /\ WF_vars(SpawnSetStatus(j))
        /\ WF_vars(SpawnGo(j))
        /\ WF_vars(RunStep(j))
        /\ WF_vars(Timeout(j))
        /\ WF_vars(ProcExit(j, KilledExit))
        /\ WF_vars(ReaderCache(j))
        /\ WF_vars(ReaderEnd(j))
        /\ WF_vars(StopProcess(j))
    /\ \A s \in Subs :
        /\ WF_vars(StreamSnapshot(s))
        /\ WF_vars(Subscribe(s))
        /\ WF_vars(StreamRecv(s))
        /\ WF_vars(StreamClosed(s))
        /\ WF_vars(StreamReturn(s))

FairSpec == Spec /\ Fairness

\* the registry with several jobs whose deadline does not elapse
RegNext ==
    \/ Create
    \/ \E j \in Jobs :
          \/ Remove(j)
          \/ RemoveDuringSetStatus(j)
          \/ StopStep(j)
          \/ SpawnSetStatus(j)
          \/ SpawnGo(j)
          \/ \E code \in NaturalExits \cup {KilledExit} : ProcExit(j, code)
          \/ RunStep(j)
          \/ ReaderEnd(j)

RegSpec == Init /\ [][RegNext]_vars

\* one job that nobody stops, removes or streams
SoloNext ==
    \/ CreateFirst
    \/ \E j \in Jobs :
          \/ SpawnSetStatus(j)
          \/ SpawnGo(j)
          \/ Timeout(j)
          \/ \E code \in NaturalExits \cup {KilledExit} : ProcExit(j, code)
          \/ RunStep(j)
          \/ ReaderEnd(j)
          \/ ReaderStep(j)

\* the same under the scheduling of Fairness
SoloSpec == Init /\ [][SoloNext]_vars /\ Fairness

\* one job that nobody stops or removes, with several stream requests on it
FanNext ==
    \/ SoloNext
    \/ \E s \in Subs : SubStep(s)

FanSpec == Init /\ [][FanNext]_vars

\* several jobs that nobody stops or removes and that print nothing, with a
\* stream request on one of them
PairNext ==
    \/ Create
    \/ \E j \in Jobs :
          \/ SpawnSetStatus(j)
          \/ SpawnGo(j)
          \/ Timeout(j)
          \/ \E code \in NaturalExits \cup {KilledExit} : ProcExit(j, code)
          \/ RunStep(j)
          \/ ReaderEnd(j)
    \/ \E s \in 1..MaxSubs : SubStep(s)

PairSpec == Init /\ [][PairNext]_vars

\* one job under the clock and the cleanup ticker, with no DELETE request
TimedNext ==
    \/ CreateFirst
    \/ \E j \in Jobs : JobStep(j)
    \/ \E j \in Jobs : ReaderStep(j)
    \/ Tick
    \/ Cleanup
    \/ \E j \in Jobs : CleanupDuringStop(j)
    \/ \E j \in Jobs : CleanupDuringSetStatus(j)

TimedSpec == Init /\ [][TimedNext]_vars

\* one job that nobody stops and that prints up to MaxTimedLines lines, under
\* the clock and the cleanup ticker, and one GET /result-data/{id} request
ResInit == SystemInit /\ rbuf = NewRingBuffer(1) /\ lineLimit = MaxTimedLines /\ available = TRUE

ResNext ==
    \/ SoloNext
    \/ Tick
    \/ Cleanup
    \/ \E id \in Jobs : ResultDataGet(id)
    \/ ResultDataRead

ResSpec == ResInit /\ [][ResNext]_vars

\* one job, calls of Manager.Stop on any id and Manager.Remove, under the clock
\* until the first tick of the cleanup ticker is due to be served
HaltNext ==
    \/ CreateFirst
    \/ \E j \in Jobs : Remove(j)
    \/ \E j \in Jobs : RemoveDuringSetStatus(j)
    \/ \E id \in Jobs : stopping[id] < MaxHaltStoppers /\ StopCall(id)
    \/ \E j \in Jobs : StopProcess(j)
    \/ \E j \in Jobs :
          \/ SpawnSetStatus(j)
          \/ SpawnGo(j)
          \/ Timeout(j)
          \/ \E code \in NaturalExits \cup {KilledExit} : ProcExit(j, code)
          \/ RunStep(j)
          \/ ReaderEnd(j)
          \/ ReaderStep(j)
    \/ Tick

HaltSpec == Init /\ [][HaltNext]_vars

\* one job that nobody stops or removes, with stream requests on it whose
\* cleanup function is called again after the handler has returned
UnsubNext ==
    \/ SoloNext
    \/ \E s \in 1..MaxSubs : SubStep(s)
    \/ \E s \in 1..MaxSubs : UnsubscribeAgain(s)

UnsubSpec == Init /\ [][UnsubNext]_vars

\* the registry behind POST /run, one DELETE /process/{id} request and other
\* calls of Manager.Remove, with jobs that print nothing and have no stream
\* request
ApiInit == SystemInit /\ rbuf = NewRingBuffer(1) /\ lineLimit = MaxLines
           /\ available \in BOOLEAN

ApiNext ==
    \/ \E name \in ConnectorNames : RunHandler(name)
    \/ \E id \in Jobs : DeleteStop(id)
    \/ DeleteStopProcess
    \/ DeleteRemove
    \/ DeleteRemoveDuringSetStatus
    \/ \E j \in Jobs :
          \/ Remove(j)
          \/ RemoveDuringSetStatus(j)
          \/ SpawnSetStatus(j)
          \/ SpawnGo(j)
          \/ Timeout(j)
          \/ \E code \in NaturalExits \cup {KilledExit} : ProcExit(j, code)
          \/ RunStep(j)
          \/ ReaderEnd(j)

ApiSpec == ApiInit /\ [][ApiNext]_vars

\* one job that is stopped but not removed or streamed, under the scheduling of
\* Fairness
StopNext ==
    \/ SoloNext
    \/ \E j \in Jobs : StopStep(j)

StopSpec == Init /\ [][StopNext]_vars /\ Fairness

\* one job that nobody stops, removes or streams, whose output stream can fail
\* to be read
ReadNext ==
    \/ SoloNext
    \/ \E j \in Jobs : ReaderError(j)

ReadSpec == Init /\ [][ReadNext]_vars

\* the ring buffer alone, for every capacity up to MaxSize
RBInit ==
    /\ SystemInit
    /\ lineLimit = MaxLines
    /\ available = TRUE
    /\ rbuf \in {NewRingBuffer(n) : n \in 1..MaxSize}

RBNext ==
    \/ \E item \in RBItems : RBPush(item)
    \/ RBClear

RBSpec == RBInit /\ [][RBNext]_vars

\* ============================================================= claims
HasDone(j) == \E i \in 1..Len(appended[j]) : appended[j][i].type = "done"

\* position of the done event among the appended events (0: none yet)
DoneIdx(j) ==
    IF HasDone(j)
    THEN CHOOSE i \in 1..Len(appended[j]) :
            /\ appended[j][i].type = "done"
            /\ \A k \in 1..(i - 1) : appended[j][k].type # "done"
    ELSE 0

IsPrefix(a, b) == Len(a) <= Len(b) /\ a = SubSeq(b, 1, Len(a))

\* what the channel of request s has carried so far
Delivered(s) == received[s] \o chan[s].buf

\* events appended to the job of request s since its Subscribe call
Since(s) == SubSeq(appended[sjob[s]], subIdx[s] + 1, Len(appended[sjob[s]]))

\* C1: the number of registered jobs whose status is pending or running never
\* exceeds MaxConcurrent.
C1_ActiveWithinCeiling == ActiveCount <= MaxConcurrent

\* C2: a status that is completed, failed or stopped is never changed by any step.
C2_TerminalAbsorbing ==
    [][\A j \in Jobs : status[j] \in Terminal => status'[j] = status[j]]_vars

\* C3: in every state of a created job, CompletedAt is set exactly when the
\* status is completed, failed or stopped.
C3_CompletedAtIffTerminal ==
    \A j \in Jobs :
        status[j] # "none" => ((completedAt[j] # NULL) <=> (status[j] \in Terminal))

\* C4: a job on which Stop was called while running, and whose process was
\* launched, is stopped when its supervising task has finished.
C4_StopRunningEndsStopped ==
    \A j \in Jobs :
        (StatusRunning \in stopSaw[j] /\ proc[j] = "exited" /\ rpc[j] = "finished")
            => status[j] = StatusStopped

\* C5: every job for which RunHandler goes on to Spawn eventually has a terminal
\* status, a done event appended and Close called by its supervising task.
C5_SpawnedJobFinishes ==
    \A j \in Jobs :
        (hpc[j] = "created") ~>
            (rpc[j] = "finished" /\ status[j] \in Terminal /\ HasDone(j) /\ doneClosed[j])

\* C5 witness: a job ended through the cancellation branch, done appended, closed.
C5_Witness ==
    \E j \in Jobs :
        /\ rpc[j] = "finished" /\ status[j] = StatusStopped /\ killed[j]
        /\ HasDone(j) /\ doneClosed[j] /\ completedAt[j] # NULL

\* C6: every stream request that got past manager.Get ends without the client
\* disconnecting.
C6_StreamTerminates ==
    \A s \in Subs : (spc[s] = "snapshot") ~> (spc[s] \in {"ended", "gone"})

\* the requests C7 is about: still served or ended by the handler itself, never
\* found full by AddEvent, subscribed before the done event was appended
C7_Pre(s) ==
    /\ spc[s] \in {"recv", "ending", "ended"}
    /\ ~dropped[s]
    /\ (DoneIdx(sjob[s]) = 0 \/ subIdx[s] < DoneIdx(sjob[s]))

\* C7: such a request receives the events appended since its Subscribe call in
\* append order and without gaps, has been offered the done event before it can
\* see its channel closed, and ends having received everything up to done.
C7_DrainedSubscriberGetsAll ==
    \A s \in Subs :
        C7_Pre(s) =>
            /\ IsPrefix(received[s], Since(s))
            /\ (s \in subscribers[sjob[s]] => Delivered(s) = Since(s))
            /\ (chan[s].closed =>
                    \E i \in 1..Len(Delivered(s)) : Delivered(s)[i].type = "done")
            /\ (spc[s] = "ended" =>
                    /\ DoneIdx(sjob[s]) > 0
                    /\ received[s] = SubSeq(appended[sjob[s]], subIdx[s] + 1,
                                            DoneIdx(sjob[s])))

\* C7 witness: a drained request that ended after a line event, the error event
\* and the done event.
C7_Witness ==
    \E s \in Subs :
        /\ C7_Pre(s) /\ spc[s] = "ended"
        /\ Len(received[s]) >= 3
        /\ received[s][1].type \in {"stream", "result"}

\* C8: what a request's channel has carried is a subsequence of the events
\* appended to its job.
C8_ChannelOrderIsAppendOrder ==
    \A s \in Subs : sjob[s] # NoJob => IsSubseq(Delivered(s), appended[sjob[s]])

\* C8 witness: a request that lost an event to a full channel and received two others.
C8_Witness ==
    \E s \in Subs : dropped[s] /\ Len(received[s]) >= 2

\* C9: without Clear, ToSlice is the last size pushed items, oldest first (all
\* pushed items while fewer than size were pushed).
C9_ToSliceIsLastN ==
    ~rbCleared =>
        /\ ToSlice(rbuf) = LastN(rbPushed, rbuf.size)
        /\ Len(ToSlice(rbuf)) = Min(Len(rbPushed), rbuf.size)

\* C9 witness: a buffer of capacity at least 2 that wrapped around, head inside.
C9_Witness ==
    /\ ~rbCleared
    /\ rbuf.size >= 2
    /\ Len(rbPushed) > rbuf.size
    /\ rbuf.head # 0
    /\ rbPushed[Len(rbPushed)] # rbPushed[Len(rbPushed) - 1]

\* C10: a job with a terminal status whose supervising task has finished has a
\* Result.
C10_TerminalHasResult ==
    \A j \in Jobs :
        (status[j] \in Terminal /\ rpc[j] = "finished") => ~result[j].isNil

\* a call of Manager.Remove, alone or beside a SetStatus of the supervising task
RemoveCall(j) ==
    \/ Remove(j)
    \/ RemoveDuringSetStatus(j)

\* C11: a call of Manager.Remove on a registered job returns an error and leaves
\* the registry as it is while the job is pending or running, and deletes the
\* job and returns nil when the job is completed, failed or stopped. (A call
\* during which the job goes from running to a terminal status may do either.)
C11_RemoveOnlyTerminal ==
    [][\A j \in Jobs :
          (RemoveCall(j) /\ j \in processes) =>
              /\ (status[j] \in Active /\ status'[j] \in Active)
                    => (ret' = ErrActive /\ processes' = processes)
              /\ (status[j] \in Terminal /\ status'[j] \in Terminal)
                    => (ret' = ErrNil /\ processes' = processes \ {j})]_vars

\* C12: a call of Manager.Create made while the number of pending or running
\* jobs is at or above MaxConcurrent returns ErrMaxConcurrent and leaves the job
\* table as it is; any other call inserts exactly one new job, pending, and
\* changes no other job.
C12_CreateAdmission ==
    [][Create =>
          IF ActiveCount >= MaxConcurrent
          THEN ret' = ErrMaxConcurrent /\ processes' = processes /\ status' = status
          ELSE /\ ret' = ErrNil
               /\ \E n \in Jobs \ processes :
                     /\ status[n] = "none"
                     /\ processes' = processes \cup {n}
                     /\ status'[n] = StatusPending
                     /\ \A k \in Jobs \ {n} : status'[k] = status[k]]_vars

\* C12 witness: a Create call was turned away while a job was pending or running.
C12_Witness ==
    /\ ret = ErrMaxConcurrent
    /\ ActiveCount >= MaxConcurrent
    /\ Cardinality(processes) = 1

\* no tick of the cleanup ticker is waiting to be served
SweepsServed == now - lastSweep < CleanupDelay

SweepStep ==
    \/ Cleanup
    \/ \E k \in Jobs : CleanupDuringStop(k)
    \/ \E k \in Jobs : CleanupDuringSetStatus(k)

C14_ResultDataWindow ==
    \A j \in Jobs :
        /\ (cached[j].at = NULL => GetResultData(j) = 0)
        /\ ((cached[j].at # NULL /\ now <= cached[j].at + ResultTTL)
                => GetResultData(j) = cached[j].data)
        /\ ((cached[j].at # NULL /\ now > cached[j].at + ResultTTL)
                => GetResultData(j) = 0)

\* C14 witness: two result lines were cached, the second payload replaced the
\* first, and it has expired.
C14_Witness ==
    \E j \in Jobs :
        /\ cached[j].data = 2
        /\ Cardinality({i \in 1..Len(appended[j]) : appended[j][i].type = "result"}) = 2
        /\ now > cached[j].at + ResultTTL
        /\ resultData[j] = 2

\* C15: for a job that emitted a result event (its payload was cached), was never
\* stopped and ended completed, a GET /result-data/{id} request answered at any
\* time up to ResultTTL after the caching gets 200 with that payload, whatever
\* the sweep does.
C15_ResultDataOutlivesJob ==
    [][\A j \in Jobs :
          (/\ cached[j].at # NULL
           /\ stopSaw[j] = {}
           /\ status[j] = StatusCompleted
           /\ now <= cached[j].at + ResultTTL
           /\ rdh.pc # "done" /\ rdh'.pc = "done" /\ rdh'.id = j)
              => (rdh'.code = 200 /\ rdh'.data = cached[j].data)]_vars

\* C16: AddEvent never waits for a subscriber: the goroutine that is about to
\* call it can always take that step, and the step pushes the event to the ring
\* buffer, appends it to the channel of every subscriber that has room and
\* leaves the channel of a full subscriber as it is.
C16_FanOutNeverBlocks ==
    /\ [](\A j \in Jobs :
            /\ (rpc[j] \in {"ctx_err", "send_err"} => ENABLED SendErrorEvent(j))
            /\ (rpc[j] = "send_done" => ENABLED SendDoneEvent(j))
            /\ ((rdpc[j] = "reading" /\ lines[j] < lineLimit)
                    => ENABLED ReaderLine(j, StreamLine)))
    /\ [][\A j \in Jobs :
            Len(appended'[j]) = Len(appended[j]) + 1 =>
                /\ ToSlice(events'[j]) = LastN(appended'[j], BufferSize)
                /\ \A s \in subscribers[j] :
                      chan'[s].buf =
                          IF Len(chan[s].buf) < ChanCap
                          THEN Append(chan[s].buf, appended'[j][Len(appended'[j])])
                          ELSE chan[s].buf]_vars

\* C16 witness: the last event found one subscriber's channel full and was
\* dropped for it, and reached another subscriber of the same job.
C16_Witness ==
    \E s1 \in Subs, s2 \in Subs :
        /\ s1 # s2 /\ sjob[s1] = sjob[s2] /\ sjob[s1] # NoJob
        /\ dropped[s1] /\ ~dropped[s2]
        /\ Len(chan[s1].buf) = ChanCap
        /\ chan[s1].buf[ChanCap] # appended[sjob[s1]][Len(appended[sjob[s1]])]
        /\ Delivered(s2) # << >>
        /\ Delivered(s2)[Len(Delivered(s2))] = appended[sjob[s1]][Len(appended[sjob[s1]])]

\* the supervising task of job j took the case cmdErr = <-cmdDone of its select
\* (only that case sets a Result for a process that was launched)
TookCmdCase(j) ==
    \/ rpc[j] \in {"cmd_stream", "cmd_result"}
    \/ /\ rpc[j] \in {"send_err", "send_done", "close", "finished"}
       /\ proc[j] = "exited"
       /\ ~result[j].isNil

ErrorCount(j) ==
    Cardinality({i \in 1..Len(appended[j]) : appended[j][i].type = "error"})

\* C17: once the supervising task has taken the exit case of its select, it sets
\* the status only after the line reader has finished; the status is completed
\* on exit code 0 and failed otherwise; the Result is {0, no error} on exit code
\* 0 and {the exit code, an error} otherwise; and it has appended no error event
\* on exit code 0 and exactly one otherwise when it sends the done event.
C17_ExitCaseOutcome ==
    \A j \in Jobs :
        (TookCmdCase(j) /\ rpc[j] # "cmd_stream") =>
            /\ rdpc[j] = "done"
            /\ status[j] = (IF exitCode[j] = 0 THEN StatusCompleted ELSE StatusFailed)
            /\ (rpc[j] # "cmd_result" =>
                    result[j] = (IF exitCode[j] = 0 THEN MkResult(0, FALSE)
                                 ELSE MkResult(exitCode[j], TRUE)))
            /\ ErrorCount(j) = (IF rpc[j] \in {"send_done", "close", "finished"}
                                   /\ exitCode[j] # 0
                                THEN 1 ELSE 0)

\* C17 witness: a process that printed a line and ended with status 3; its job
\* is failed with that exit code and one error event.
C17_Witness ==
    \E j \in Jobs :
        /\ TookCmdCase(j) /\ rpc[j] = "finished"
        /\ exitCode[j] = 3 /\ result[j].exitCode = 3
        /\ status[j] = StatusFailed
        /\ ErrorCount(j) = 1
        /\ \E i \in 1..Len(appended[j]) : appended[j][i].type = "stream"

\* StdoutPipe or Start failed for job j: handleError runs or has run
LaunchFailed(j) ==
    \/ rpc[j] \in {"he_status", "he_result"}
    \/ rpc[j] \in {"send_err", "send_done", "close", "finished"} /\ proc[j] = "none"

\* C18: a job whose launch failed ends failed, with a Result of nonzero exit code
\* and an error text, with an error event followed by a done event as its
\* buffer, with its done channel closed and no subscriber left; the Close step
\* closes the channel of every subscriber; and no step of handleError changes
\* the registry or another job.
C18_LaunchFailureContained ==
    /\ [](\A j \in Jobs :
            (LaunchFailed(j) /\ rpc[j] = "finished") =>
                /\ status[j] = StatusFailed
                /\ ~result[j].isNil /\ result[j].exitCode # 0 /\ result[j].hasError
                /\ ToSlice(events[j]) = <<ErrorEvent, DoneEvent(StatusFailed, result[j])>>
                /\ doneClosed[j])
    /\ [][\A j \in Jobs :
            (LaunchFailed(j) /\ rpc'[j] # rpc[j]) =>
                /\ processes' = processes
                /\ nextId' = nextId
                /\ \A k \in Jobs \ {j} :
                      /\ status'[k] = status[k] /\ result'[k] = result[k]
                      /\ events'[k] = events[k] /\ doneClosed'[k] = doneClosed[k]
                      /\ subscribers'[k] = subscribers[k]
                /\ (rpc'[j] = "finished" =>
                      /\ subscribers'[j] = {}
                      /\ \A s \in subscribers[j] : chan'[s].closed)]_vars

\* C18 witness: a launch failure has been handled to the end while another job
\* was running and a stream request on the failed job got the error and the
\* done event and saw its channel closed.
C18_Witness ==
    \E j \in Jobs, k \in Jobs, s \in Subs :
        /\ j # k
        /\ LaunchFailed(j) /\ rpc[j] = "finished"
        /\ j \in processes /\ k \in processes
        /\ status[k] = StatusRunning
        /\ sjob[s] = j /\ chan[s].closed
        /\ received[s] = <<ErrorEvent, DoneEvent(StatusFailed, result[j])>>

\* the deadline of job j's context has elapsed and its process is still alive:
\* without a stop request, only the deadline cancels the context of a live process
DeadlineHitAlive(j) == stopSaw[j] = {} /\ ctx[j] = "done" /\ proc[j] = "alive"

\* C19: when the deadline elapses while the external process is alive, the
\* supervising task eventually finishes with the process ended, the status
\* stopped, and an error event appended before the done event.
C19_DeadlineEndsStopped ==
    \A j \in Jobs :
        DeadlineHitAlive(j) ~>
            (/\ rpc[j] = "finished"
             /\ proc[j] = "exited"
             /\ status[j] = StatusStopped
             /\ \E i \in 1..Len(appended[j]), k \in 1..Len(appended[j]) :
                   i < k /\ appended[j][i].type = "error" /\ appended[j][k].type = "done")

\* C20: once CompletedAt of a job is set, no step changes it.
C20_CompletedAtSetOnce ==
    [][\A j \in Jobs : completedAt[j] # NULL => completedAt'[j] = completedAt[j]]_vars

\* the state in which a call of Process.Stop leaves job j
StopLeaves(j) == doneClosed[j] /\ status[j] \notin Active /\ ctx[j] # "active"

\* C21: a call of Manager.Stop on an unknown id returns ErrProcessNotFound and
\* changes nothing else; a call that found the job returns nil and its
\* process.Stop() leaves the job as StopLeaves says, and when it finds the job in
\* such a state (as a second call with no operation in between does) it changes
\* neither its status, its CompletedAt, its Result, its subscriber set nor its
\* done channel.
C21_StopIdempotent ==
    [][\A id \in Jobs :
          /\ (StopCall(id) /\ id \notin processes) =>
                /\ ret' = ErrProcessNotFound
                /\ UNCHANGED <<mgrVars, jobVars, osVars, pcVars, appended, subVars,
                               clockVars, rbVars, muVars, callVars, stopSaw, lineLimit,
                               cached, del, available>>
          /\ StopProcess(id) =>
                /\ ret' = ErrNil
                /\ StopLeaves(id)'
                /\ (StopLeaves(id) =>
                       /\ status'[id] = status[id]
                       /\ completedAt'[id] = completedAt[id]
                       /\ result'[id] = result[id]
                       /\ subscribers'[id] = subscribers[id]
                       /\ doneClosed'[id] = doneClosed[id])]_vars

\* C21 witness: a job that Stop found running is stopped with a CompletedAt in
\* the past, and the last Stop call named an unknown id.
C21_Witness ==
    \E j \in Jobs :
        /\ StatusRunning \in stopSaw[j] /\ status[j] = StatusStopped
        /\ StopLeaves(j)
        /\ completedAt[j] # NULL /\ completedAt[j] < now
        /\ ret = ErrProcessNotFound

\* request s makes a call of Unsubscribe in this step: its handler returns, or
\* its cleanup function is called again
UnsubscribeStep(s) ==
    \/ StreamReturn(s)
    \/ UnsubscribeAgain(s)

\* C22: no channel is closed twice, and a registered channel is open; a call of
\* Unsubscribe that finds the subscriber registered removes it and closes its
\* channel (one close), and a call that does not find it (a repeated call, or a
\* call after Close took every subscriber) changes neither the subscriber map
\* nor any channel's closed state.
C22_UnsubscribeOnce ==
    /\ [](\A s \in Subs :
            /\ chan[s].closes <= 1
            /\ (chan[s].closed <=> chan[s].closes = 1)
            /\ (sjob[s] # NoJob /\ s \in subscribers[sjob[s]] => ~chan[s].closed))
    /\ [][\A s \in Subs :
            UnsubscribeStep(s) =>
                IF s \in subscribers[sjob[s]]
                THEN /\ s \notin subscribers'[sjob[s]]
                     /\ chan'[s].closed
                     /\ chan'[s].closes = chan[s].closes + 1
                     /\ \A t \in Subs \ {s} : chan'[t] = chan[t]
                ELSE /\ subscribers' = subscribers
                     /\ \A t \in Subs :
                           /\ chan'[t].closed = chan[t].closed
                           /\ chan'[t].closes = chan[t].closes]_vars

\* C22 witness: a client went away, its channel was closed by Unsubscribe, and
\* the job was closed by its supervising task afterwards.
C22_Witness ==
    \E s \in Subs :
        /\ spc[s] = "gone" /\ chan[s].closes = 1
        /\ sjob[s] # NoJob /\ rpc[sjob[s]] = "finished"
        /\ HasDone(sjob[s])

\* C23: a DELETE request answers 404 exactly when Manager.Stop does not find
\* the id, and a request whose id was found ends with a 200 response and the
\* job absent from the registry.
C23_DeleteStopsThenRemoves ==
    /\ [](del.pc = "done" =>
            \/ del.code = 404
            \/ del.code = 200 /\ del.id \notin processes)
    /\ [][\A id \in Jobs :
            DeleteStop(id) => (del'.code = 404 <=> id \notin processes)]_vars

\* C25: a POST /run request whose connector is not registered or not available
\* is answered 400 and changes neither the job table, any job, the active
\* count, any goroutine nor any external process.
C25_BadConnectorCreatesNothing ==
    [][\A name \in ConnectorNames :
          (RunHandler(name) /\ (name \notin Registered \/ ~available)) =>
              /\ RunHandlerCode(ret') = 400
              /\ ActiveCount' = ActiveCount
              /\ UNCHANGED <<mgrVars, jobVars, osVars, pcVars, appended, subVars,
                             clockVars, rbVars, muVars, callVars, stopSaw, lineLimit, cached, del,
                             available>>]_vars

\* C25 witness: a request for an unregistered connector was turned away while a
\* job was running.
C25_Witness ==
    /\ ret = ErrConnectorNotFound
    /\ \E j \in processes : status[j] = StatusRunning /\ proc[j] = "alive"

\* C24: after a Stop call that found the job running, eventually the external
\* process is no longer alive, the line reader is no longer reading, and the
\* supervising task has appended the done event, closed the job and returned.
C24_StopUnblocksAll ==
    \A j \in Jobs :
        (StatusRunning \in stopSaw[j]) ~>
            (/\ proc[j] # "alive"
             /\ rdpc[j] \in {"none", "done"}
             /\ HasDone(j) /\ doneClosed[j] /\ subscribers[j] = {}
             /\ rpc[j] = "finished")

\* C24 witness: a running job with a live process was stopped; the process was
\* killed, the reader saw the end of the stream and the supervising task closed
\* the job through the cancellation case.
C24_Witness ==
    \E j \in Jobs :
        /\ StatusRunning \in stopSaw[j] /\ killed[j]
        /\ proc[j] = "exited" /\ exitCode[j] = KilledExit
        /\ rdpc[j] = "done" /\ rpc[j] = "finished"
        /\ HasDone(j) /\ ErrorCount(j) = 1 /\ result[j].isNil

\* C26: the step that appends the done event offers it to every subscriber
\* registered at that moment (it is appended to each channel that has room, and
\* no channel is closed by that step); the supervising task calls Close only
\* with the done event appended; and the Close step closes the channel of every
\* registered subscriber and leaves the subscriber map empty.
C26_DoneBeforeClose ==
    /\ [](\A j \in Jobs : rpc[j] \in {"close", "finished"} => HasDone(j))
    /\ [][\A j \in Jobs :
            SendDoneEvent(j) =>
                /\ subscribers'[j] = subscribers[j]
                /\ \A s \in subscribers[j] :
                      /\ ~chan'[s].closed
                      /\ chan'[s].buf =
                            IF Len(chan[s].buf) < ChanCap
                            THEN Append(chan[s].buf, DoneEvent(status[j], result[j]))
                            ELSE chan[s].buf]_vars
    /\ [][\A j \in Jobs :
            Close(j) =>
                /\ HasDone(j)
                /\ subscribers'[j] = {}
                /\ \A s \in subscribers[j] : ~chan[s].closed /\ chan'[s].closed]_vars

\* C26 witness: Close has closed the channel of a request that is still being
\* served, and the done event is waiting in that channel.
C26_Witness ==
    \E s \in Subs :
        /\ spc[s] = "recv" /\ chan[s].closed
        /\ sjob[s] # NoJob /\ rpc[sjob[s]] = "finished"
        /\ chan[s].buf # << >>
        /\ chan[s].buf[Len(chan[s].buf)].type = "done"

DoneCount(j) ==
    Cardinality({i \in 1..Len(appended[j]) : appended[j][i].type = "done"})

\* C27: at most one done event is ever appended to a job, none before its
\* supervising task has reached the end of run or handleError, and exactly one
\* once that task has sent it, whatever path the task took and however many
\* Stop calls were made.
C27_ExactlyOneDone ==
    \A j \in Jobs :
        /\ DoneCount(j) <= 1
        /\ (rpc[j] \in {"close", "finished"} <=> DoneCount(j) = 1)

\* C27 witness: a job that Stop found pending and later running, whose
\* supervising task finished through the cancellation case with one done event.
C27_Witness ==
    \E j \in Jobs :
        /\ stopSaw[j] = {StatusPending, StatusRunning}
        /\ rpc[j] = "finished" /\ proc[j] = "exited" /\ result[j].isNil
        /\ DoneCount(j) = 1

\* the supervising task of job j is waiting in its select for the external
\* process, which is alive: it has not yet appended the done event nor closed
\* the job
MidTransition(j) == rpc[j] = "select" /\ proc[j] = "alive"

\* C28: every job that a sweep deletes has, as the sweep reads them, a terminal
\* status and a CompletedAt at least CleanupDelay old, and its supervising task
\* is not mid-transition.
C28_SweepSparesUnfinished ==
    [][SweepStep =>
          \A j \in processes \ processes' :
              /\ status'[j] \in Terminal
              /\ completedAt[j] # NULL
              /\ now - completedAt[j] >= CleanupDelay
              /\ ~MidTransition(j)]_vars

\* the result events that are in the buffer of job j or that a stream request
\* on job j was handed (from the buffer, or through its channel)
VisibleResults(j) ==
    {e \in {ToSlice(events[j])[i] : i \in 1..RLen(events[j])} : e.type = "result"}
    \cup UNION {{e \in {snapshot[s][i] : i \in 1..Len(snapshot[s])}
                        \cup {Delivered(s)[i] : i \in 1..Len(Delivered(s))} :
                     e.type = "result"} : s \in {t \in Subs : sjob[t] = j}}

\* C29: whenever a result event is in a job's buffer or has reached a stream
\* request, the result cache of the job holds a payload, and it holds the
\* payload of the newest such event.
C29_ResultCachedWithEvent ==
    \A j \in Jobs :
        VisibleResults(j) # {} =>
            /\ resultData[j] # 0
            /\ \A e \in VisibleResults(j) : resultData[j] >= e.n

\* C30: a job whose line reader stopped on a read error has the status failed
\* when its supervising task has finished.
C30_ReadErrorEndsFailed ==
    \A j \in Jobs :
        (rdpc[j] = "failed" /\ rpc[j] = "finished") => status[j] = StatusFailed

\* C39: after any sequence of Push and Clear on a buffer of capacity size >= 1,
\* 0 <= count <= size, 0 <= head < size, head = count while count < size, and
\* Len() is the smaller of size and the number of pushes since the last Clear;
\* a Clear step leaves Len() = 0 and an empty ToSlice.
C39_RingBufferShape ==
    /\ [](/\ rbuf.size >= 1
          /\ rbuf.count \in 0..rbuf.size
          /\ rbuf.head \in 0..(rbuf.size - 1)
          /\ (rbuf.count < rbuf.size => rbuf.head = rbuf.count)
          /\ RLen(rbuf) = Min(Len(rbPushed), rbuf.size)
          /\ Len(ToSlice(rbuf)) = RLen(rbuf))
    /\ [][RBClear => (RLen(rbuf') = 0 /\ ToSlice(rbuf') = << >>)]_vars

\* C39 witness: a buffer of capacity at least 2 that was cleared with its head
\* inside and has been filled beyond its capacity again.
C39_Witness ==
    /\ rbCleared
    /\ rbuf.size >= 2
    /\ Len(rbPushed) > rbuf.size
    /\ rbuf.head # 0
    /\ rbuf.count = rbuf.size

\* ---- line-reader specification: one job without Stop, two output lines
LineInit ==
    /\ SystemInit
    /\ rbuf = NewRingBuffer(1)
    /\ lineLimit = MaxTimedLines
    /\ available = TRUE

LineSpec == LineInit /\ [][SoloNext]_vars

\* C31: a line for which ParseLine gives nothing (blank, or not a JSON object)
\* appends no event, sends nothing to subscribers, changes neither status nor
\* Result, and leaves the reader reading so that it goes on to the next line.
C31_SkippedLineNoEffect ==
    [][\A j \in Jobs : \A line \in {BlankLine, TextLine} :
          ReaderLine(j, line) =>
              /\ appended' = appended
              /\ events' = events
              /\ chan' = chan
              /\ status' = status
              /\ result' = result
              /\ resultData' = resultData
              /\ rdpc'[j] = "reading"
              /\ lines'[j] = lines[j] + 1]_vars

\* C31 witness: the first line was skipped and the second line became the
\* first event of the job.
C31_Witness ==
    \E j \in Jobs :
        /\ lines[j] = 2
        /\ Len(appended[j]) >= 1
        /\ appended[j][1] = LineEvent("stream", 2)

\* the external process of job j ended by itself with a nonzero status
ExitedNonzero(j) == proc[j] = "exited" /\ exitCode[j] \notin {0, KilledExit}

\* C32: once the supervising task of a job whose process ended by itself with a
\* nonzero status has sent the done event, the last two appended events are an
\* error event and a done event carrying status failed, and every event before
\* them comes from the line reader.
C32_NonzeroExitErrorThenDone ==
    \A j \in Jobs :
        (ExitedNonzero(j) /\ rpc[j] \in {"close", "finished"}) =>
            LET n == Len(appended[j]) IN
            /\ n >= 2
            /\ appended[j][n - 1].type = "error"
            /\ appended[j][n].type = "done"
            /\ appended[j][n].status = StatusFailed
            /\ \A i \in 1..(n - 2) : appended[j][i].type \in {"stream", "result"}

\* C33: the done event is the last event ever appended to a job: once done is
\* among the appended events, no step appends another event to that job.
C33_DoneIsLastAppended ==
    [][\A j \in Jobs : HasDone(j) => appended'[j] = appended[j]]_vars

\* ---- channel specification: Spec with repeated calls of a stream's cleanup
ChanNext ==
    \/ Next
    \/ \E s \in 1..MaxSubs : UnsubscribeAgain(s)

ChanSpec == Init /\ [][ChanNext]_vars

\* C34: under every interleaving of AddEvent, Subscribe, Unsubscribe, Stop and
\* Close on a job, close(p.done) is executed at most once, every subscriber
\* channel is closed at most once, every channel in the subscriber map is open,
\* and no step sends an event on a closed subscriber channel.
C34_NoSendOrCloseOnClosed ==
    /\ [](/\ \A j \in Jobs : doneCloses[j] <= 1 /\ (doneClosed[j] <=> doneCloses[j] = 1)
          /\ \A s \in Subs : chan[s].closes <= 1 /\ (chan[s].closed <=> chan[s].closes = 1)
          /\ \A j \in Jobs : \A s \in subscribers[j] : ~chan[s].closed)
    /\ [][\A s \in Subs :
            chan[s].closed => Len(chan'[s].buf) <= Len(chan[s].buf)]_vars

\* C34 witness: a job that was stopped and then closed by its supervising task,
\* whose subscriber channel was closed, and to which the line reader appended
\* an event after the done event.
C34_Witness ==
    \E j \in Jobs : \E s \in Subs :
        /\ stopSaw[j] # {} /\ rpc[j] = "finished"
        /\ doneCloses[j] = 1
        /\ sjob[s] = j /\ chan[s].closes = 1
        /\ HasDone(j) /\ appended[j][Len(appended[j])].type # "done"

\* C35: a job that Stop found pending (after Create, before Spawn) never gets an
\* external process and keeps the status stopped.
C35_StoppedPendingNeverLaunched ==
    \A j \in Jobs :
        StatusPending \in stopSaw[j] =>
            /\ proc[j] = "none"
            /\ status[j] = StatusStopped

\* C37: the supervising task has received the exit of the process it started
\* before it appends the done event: when done is appended, and when the task
\* has finished after Close, the external process of the job is not alive.
C37_NoProcessOutlivesTask ==
    \A j \in Jobs :
        (HasDone(j) \/ rpc[j] \in {"close", "finished"}) => proc[j] # "alive"

\* C37 witness: a task that finished on the cancellation path after its process
\* was killed, and whose job was stopped while the process was running.
C37_Witness ==
    \E j \in Jobs :
        /\ rpc[j] = "finished"
        /\ proc[j] = "exited" /\ exitCode[j] = KilledExit
        /\ StatusRunning \in stopSaw[j]

\* ---- replay specification: one job without Stop that prints two lines, and
\* one stream request on it
ReplayNext ==
    \/ SoloNext
    \/ \E s \in 1..MaxSubs : SubStep(s)

ReplaySpec == LineInit /\ [][ReplayNext]_vars

\* what request s has written to its client: the replayed snapshot, then the
\* events received from its channel
Written(s) == snapshot[s] \o received[s]

\* how many events had been appended when request s took its snapshot (the
\* position of the snapshot's last event; the buffer is never cleared)
SnapIdx(s) ==
    IF snapshot[s] = << >> THEN 0
    ELSE CHOOSE p \in 1..Len(appended[sjob[s]]) :
            appended[sjob[s]][p] = snapshot[s][Len(snapshot[s])]

\* the events appended after the snapshot of request s and before its Subscribe
Between(s) == {appended[sjob[s]][p] : p \in (SnapIdx(s) + 1)..subIdx[s]}

NoRepeat(seq) == \A i \in 1..Len(seq) : \A k \in 1..Len(seq) : seq[i] = seq[k] => i = k

\* C38: a stream request that takes the snapshot, then subscribes, then reads
\* its channel writes no appended event twice, and an event appended between
\* its snapshot and its Subscribe call is neither in the snapshot nor ever
\* carried by its channel.
C38_NoRepeatAndGapLost ==
    \A s \in 1..MaxSubs :
        spc[s] # "idle" =>
            /\ NoRepeat(appended[sjob[s]])
            /\ snapshot[s] = LastN(SubSeq(appended[sjob[s]], 1, SnapIdx(s)), BufferSize)
            /\ NoRepeat(Written(s) \o chan[s].buf)
            /\ (spc[s] \notin {"snapshot", "subscribe"} =>
                    /\ SnapIdx(s) <= subIdx[s]
                    /\ \A e \in Between(s) :
                          /\ \A i \in 1..Len(Written(s)) : Written(s)[i] # e
                          /\ \A i \in 1..Len(chan[s].buf) : chan[s].buf[i] # e)

\* C38 witness: a request that replayed one event, missed the event appended
\* before its Subscribe call, and then received later events up to done.
C38_Witness ==
    \E s \in 1..MaxSubs :
        /\ spc[s] = "ended"
        /\ snapshot[s] # << >>
        /\ Between(s) # {}
        /\ Len(received[s]) >= 2
        /\ received[s][Len(received[s])].type = "done"

\* ---- lock specification: goroutines running registry and job operations
LockNext ==
    \/ \E t \in Threads : \E prog \in LockPrograms : LockCall(t, prog)
    \/ \E t \in Threads : LockStep(t)

LockSpec == Init /\ [][LockNext]_vars

\* the locks goroutine t holds
HeldBy(t) == {l \in Locks : held[l].w = t \/ t \in held[l].r}

\* goroutine t is about to acquire, or waits for, lock l
Requests(t, l) ==
    /\ tprog[t] # << >>
    /\ Head(tprog[t]).lock = l
    /\ Head(tprog[t]).op \in {"Call", "Lock", "RLock"}

\* C36: a goroutine that requests a job lock or a buffer lock does not hold
\* the registry lock; one that requests a job lock holds no lock; one that
\* requests a buffer lock holds at most the job lock of the same job; one that
\* requests the registry lock holds no lock.  And whenever some goroutine is
\* inside an operation, some goroutine can make its next lock call: no
\* interleaving of the operations deadlocks.
C36_LockOrderNoDeadlock ==
    /\ \A t \in Threads : \A l \in Locks :
          Requests(t, l) =>
              /\ RegistryLock \notin HeldBy(t)
              /\ (l.kind \in {"m", "p"} => HeldBy(t) = {})
              /\ (l.kind = "rb" => HeldBy(t) \subseteq {JobLock(l.job)})
    /\ ((\E t \in Threads : tprog[t] # << >>) => \E t \in Threads : ENABLED LockStep(t))

\* C36 witness: one goroutine inside AddEvent holds the job lock and waits for
\* the buffer lock that a reader of the buffer holds, while a third waits for
\* the registry lock held by a reader.
C36_Witness ==
    \E t1 \in Threads, t2 \in Threads, t3 \in Threads : \E j \in Jobs :
        /\ held[JobLock(j)].w = t1
        /\ Requests(t1, BufferLock(j)) /\ Head(tprog[t1]).op = "Lock"
        /\ t2 \in held[BufferLock(j)].r
        /\ t3 \in held[RegistryLock].r

============================================================================
